---- MODULE Spec2Model ----
(***************************************************************************)
(* Model of tools/stabilize_building.py: the decision core that turns a    *)
(* per-frame global-motion path into a static crop rectangle, a border     *)
(* fill budget and a pass/fail report.                                     *)
(*                                                                         *)
(* Python floats are IEEE-754 binary64.  Translations (dx, dy) are drawn   *)
(* from multiples of 1/PX pixel, which binary64 represents exactly, so     *)
(* their sums, differences, min, max, ceil and floor are exact and are     *)
(* modelled on integers counted in 1/PX pixel.  Every float division,      *)
(* multiplication, subtraction of rounded values and square root of the    *)
(* source is modelled with its binary64 rounding (round to nearest, ties   *)
(* to even) on arbitrary-size naturals.                                    *)
(***************************************************************************)
EXTENDS Integers, Sequences, FiniteSets, TLC

(***************************************************************************)
(* Arbitrary-size naturals: little-endian sequences of limbs below BASE,   *)
(* without leading zero limbs; <<>> is 0.                                  *)
(***************************************************************************)
RECURSIVE Call(_, _)
BASE == 32768
LIMB_BITS == 15
MANT_BITS == 53

Limb(a, i) == IF i <= Len(a) THEN a[i] ELSE 0

RECURSIVE BigTrim(_)
BigTrim(a) ==
    IF a = <<>> THEN a
    ELSE IF a[Len(a)] = 0 THEN BigTrim(SubSeq(a, 1, Len(a) - 1)) ELSE a

RECURSIVE BigOf(_)
BigOf(n) == IF n = 0 THEN <<>> ELSE <<n % BASE>> \o BigOf(n \div BASE)

RECURSIVE BigToInt(_)
BigToInt(a) == IF a = <<>> THEN 0 ELSE a[1] + BASE * BigToInt(Tail(a))

RECURSIVE BigAddC(_, _, _, _)
BigAddC(a, b, i, c) ==
    IF i > Len(a) /\ i > Len(b)
    THEN (IF c = 0 THEN <<>> ELSE <<c>>)
    ELSE LET s == Limb(a, i) + Limb(b, i) + c
         IN  <<s % BASE>> \o BigAddC(a, b, i + 1, s \div BASE)

BigAdd(a, b) == BigAddC(a, b, 1, 0)

RECURSIVE BigSubC(_, _, _, _)
BigSubC(a, b, i, c) ==
    IF i > Len(a) THEN <<>>
    ELSE LET d == Limb(a, i) - Limb(b, i) - c
         IN  IF d < 0 THEN <<d + BASE>> \o BigSubC(a, b, i + 1, 1)
             ELSE <<d>> \o BigSubC(a, b, i + 1, 0)

\* a - b for a >= b
BigSub(a, b) == BigTrim(BigSubC(a, b, 1, 0))

RECURSIVE BigCmpFrom(_, _, _)
BigCmpFrom(a, b, i) ==
    IF i = 0 THEN 0
    ELSE IF a[i] < b[i] THEN -1
    ELSE IF a[i] > b[i] THEN 1
    ELSE BigCmpFrom(a, b, i - 1)

\* -1, 0, 1 as a < b, a = b, a > b
BigCmp(a, b) ==
    IF Len(a) < Len(b) THEN -1
    ELSE IF Len(a) > Len(b) THEN 1
    ELSE BigCmpFrom(a, b, Len(a))

RECURSIVE BigMulIntC(_, _, _, _)
BigMulIntC(a, k, i, c) ==
    IF i > Len(a) THEN BigOf(c)
    ELSE LET s == a[i] * k + c
         IN  <<s % BASE>> \o BigMulIntC(a, k, i + 1, s \div BASE)

\* a * k for 0 <= k < BASE
BigMulInt(a, k) == BigTrim(BigMulIntC(a, k, 1, 0))

BigShlLimbs(a, n) == IF a = <<>> THEN a ELSE [i \in 1..n |-> 0] \o a

RECURSIVE BigMulFrom(_, _, _)
BigMulFrom(a, b, j) ==
    IF j > Len(b) THEN <<>>
    ELSE BigAdd(BigShlLimbs(BigMulInt(a, b[j]), j - 1), BigMulFrom(a, b, j + 1))

BigMul(a, b) == Call("BigMulFrom", <<a, b, 1>>)

\* a * 2^k
BigShl(a, k) == BigShlLimbs(BigMulInt(a, 2 ^ (k % LIMB_BITS)), k \div LIMB_BITS)

\* floor(a / 2^k)
BigShr(a, k) ==
    LET n == k \div LIMB_BITS
        r == k % LIMB_BITS
        b == IF n >= Len(a) THEN <<>> ELSE SubSeq(a, n + 1, Len(a))
    IN  BigTrim([i \in 1..Len(b) |->
            (b[i] \div (2 ^ r)) + (Limb(b, i + 1) % (2 ^ r)) * (2 ^ (LIMB_BITS - r))])

\* the k low bits of a are all zero
BigLowZero(a, k) == BigShl(BigShr(a, k), k) = a

RECURSIVE BitLenInt(_)
BitLenInt(n) == IF n = 0 THEN 0 ELSE 1 + BitLenInt(n \div 2)

BigBitLen(a) ==
    IF a = <<>> THEN 0 ELSE LIMB_BITS * (Len(a) - 1) + BitLenInt(a[Len(a)])

BigIsOdd(a) == a # <<>> /\ a[1] % 2 = 1

\* bit i (1 = least significant) of a
BigBit(a, i) == (Limb(a, ((i - 1) \div LIMB_BITS) + 1) \div (2 ^ ((i - 1) % LIMB_BITS))) % 2

\* the loop "for i in lo..hi: acc = Op(acc, i)".  The range is halved at each
\* level and the left half is evaluated (left = left) before the right half
\* starts, which keeps the evaluation depth logarithmic in the range.
RECURSIVE FoldRange(_, _, _, _)
FoldRange(Op(_, _), acc, lo, hi) ==
    IF lo > hi THEN acc
    ELSE IF lo = hi THEN Op(acc, lo)
    ELSE LET mid == (lo + hi) \div 2
             left == FoldRange(Op, acc, lo, mid)
         IN  IF left = left THEN FoldRange(Op, left, mid + 1, hi) ELSE left

\* the largest q <= guess with q * d <= r
RECURSIVE BigDivDigit(_, _, _)
BigDivDigit(r, d, guess) ==
    IF BigCmp(BigMulInt(d, guess), r) > 0 THEN BigDivDigit(r, d, guess - 1) ELSE guess

\* one step of long division in base BASE: bring down one limb; the quotient
\* digit is guessed from the two leading limbs of the remainder and the
\* leading limb of d (at least BASE / 2), then corrected downwards;
\* st = <<quotient, remainder>>
BigDivLimb(d, st, limb) ==
    LET r2 == BigTrim(<<limb>> \o st[2])
        t == Len(d)
        top == Limb(r2, t + 1) * BASE + Limb(r2, t)
        g == top \div d[t]
        q == Call("BigDivDigit", <<r2, d, IF g > BASE - 1 THEN BASE - 1 ELSE g>>)
    IN  <<BigTrim(<<q>> \o st[1]), BigSub(r2, BigMulInt(d, q))>>

\* <<floor(n / d), (n mod d) scaled by a power of two>> for d > 0
BigDivMod(n, d) ==
    LET sh == LIMB_BITS - BitLenInt(d[Len(d)])
        dn == BigShl(d, sh)
        nn == BigShl(n, sh)
        L == Len(nn)
    IN  FoldRange(LAMBDA st, j : Call("BigDivLimb", <<dn, st, nn[L + 1 - j]>>), <<(<<>>), (<<>>)>>, 1, L)

\* floor(sqrt(n)) by Newton's iteration from x >= floor(sqrt(n))
BigSqrtFrom(n, x) ==
    LET y == BigShr(BigAdd(x, Call("BigDivMod", <<n, x>>)[1]), 1)
    IN  IF BigCmp(y, x) < 0 THEN Call("BigSqrtFrom", <<n, y>>) ELSE x

\* floor(sqrt(n)) for n > 0
BigSqrt(n) ==
    Call("BigSqrtFrom", <<n, BigShl(<<1>>, (BigBitLen(n) + 1) \div 2)>>)

(***************************************************************************)
(* binary64 values >= 0: [m, e] is m * 2^e with m of exactly 53 bits, or   *)
(* m = <<>> for 0.0.  The magnitudes of the model stay far from the        *)
(* subnormal and overflow ranges.                                          *)
(***************************************************************************)
FZero == [m |-> <<>>, e |-> 0]

\* n * 2^e (plus a nonzero tail below the last bit of n when sticky) rounded
\* to 53 bits, to nearest, ties to even
F64Round(n, e, sticky) ==
    LET L == BigBitLen(n)
    IN  IF L <= MANT_BITS
        THEN [m |-> BigShl(n, MANT_BITS - L), e |-> e - (MANT_BITS - L)]
        ELSE LET k == L - MANT_BITS
                 q == BigShr(n, k)
                 roundbit == BigBit(n, k) = 1
                 restzero == BigLowZero(n, k - 1) /\ ~sticky
                 up == roundbit /\ (~restzero \/ BigIsOdd(q))
                 q2 == IF up THEN BigAdd(q, <<1>>) ELSE q
             IN  IF BigBitLen(q2) > MANT_BITS
                 THEN [m |-> BigShr(q2, 1), e |-> e + k + 1]
                 ELSE [m |-> q2, e |-> e + k]

\* float(k) for an int k >= 0
F64OfInt(k) == IF k = 0 THEN FZero ELSE Call("F64Round", <<BigOf(k), 0, FALSE>>)

\* x * y
F64Mul(x, y) ==
    IF x.m = <<>> \/ y.m = <<>> THEN FZero
    ELSE Call("F64Round", <<Call("BigMul", <<x.m, y.m>>), x.e + y.e, FALSE>>)

\* x / y for y > 0
F64Div(x, y) ==
    IF x.m = <<>> THEN FZero
    ELSE LET qr == Call("BigDivMod", <<BigShl(x.m, MANT_BITS + 3), y.m>>)
         IN  Call("F64Round", <<qr[1], x.e - (MANT_BITS + 3) - y.e, qr[2] # <<>>>>)

\* math.sqrt(x)
F64Sqrt(x) ==
    IF x.m = <<>> THEN FZero
    ELSE LET odd == x.e % 2 = 1
             sh == IF odd THEN MANT_BITS + 4 ELSE MANT_BITS + 3
             n == BigShl(x.m, sh)
             s == Call("BigSqrt", <<n>>)
         IN  Call("F64Round", <<s, (x.e - sh) \div 2, Call("BigMul", <<s, s>>) # n>>)

\* -1, 0, 1 as x < y, x = y, x > y
F64Cmp(x, y) ==
    IF x.m = <<>> THEN (IF y.m = <<>> THEN 0 ELSE -1)
    ELSE IF y.m = <<>> THEN 1
    ELSE IF x.e < y.e THEN -1
    ELSE IF x.e > y.e THEN 1
    ELSE BigCmp(x.m, y.m)

\* x - y for x >= y (exact difference, rounded once)
F64Sub(x, y) ==
    IF y.m = <<>> THEN x
    ELSE LET lo == IF x.e < y.e THEN x.e ELSE y.e
             a == BigShl(x.m, x.e - lo)
             b == BigShl(y.m, y.e - lo)
         IN  IF BigCmp(a, b) = 0 THEN FZero ELSE Call("F64Round", <<BigSub(a, b), lo, FALSE>>)

\* x + y (exact sum, rounded once)
F64Add(x, y) ==
    IF y.m = <<>> THEN x
    ELSE IF x.m = <<>> THEN y
    ELSE LET lo == IF x.e < y.e THEN x.e ELSE y.e
         IN  Call("F64Round", <<BigAdd(BigShl(x.m, x.e - lo), BigShl(y.m, y.e - lo)), lo, FALSE>>)

\* int(math.floor(x))
F64Floor(x) ==
    IF x.m = <<>> THEN 0
    ELSE IF x.e >= 0 THEN Call("BigToInt", <<BigShl(x.m, x.e)>>)
    ELSE Call("BigToInt", <<BigShr(x.m, 0 - x.e)>>)

F64IsInt(x) == x.m = <<>> \/ x.e >= 0 \/ BigLowZero(x.m, 0 - x.e)

\* int(math.ceil(x))
F64Ceil(x) == IF Call("F64IsInt", <<x>>) THEN Call("F64Floor", <<x>>) ELSE Call("F64Floor", <<x>>) + 1

\* int(round(x)): Python rounds halves to the even integer
F64RoundInt(x) ==
    LET f == Call("F64Floor", <<x>>)
        twice == Call("F64Sub", <<Call("F64Mul", <<x, Call("F64OfInt", <<2>>)>>), Call("F64OfInt", <<2 * f>>)>>)
        c == Call("F64Cmp", <<twice, Call("F64OfInt", <<1>>)>>)
    IN  IF c < 0 THEN f
        ELSE IF c > 0 THEN f + 1
        ELSE IF f % 2 = 0 THEN f ELSE f + 1

(***************************************************************************)
(* The float operations as the program's functions apply them.            *)
(***************************************************************************)
\* float(k) for an int k >= 0
FOfInt(k) == Call("F64OfInt", <<k>>)
\* x * y
FMul(x, y) == Call("F64Mul", <<x, y>>)
\* x / y for y > 0
FDiv(x, y) == Call("F64Div", <<x, y>>)
\* math.sqrt(x)
FSqrt(x) == Call("F64Sqrt", <<x>>)
\* x - y for x >= y
FSub(x, y) == Call("F64Sub", <<x, y>>)
\* x + y
FAdd(x, y) == Call("F64Add", <<x, y>>)
\* int(math.floor(x)), int(math.ceil(x)), int(round(x))
FFloor(x) == Call("F64Floor", <<x>>)
FCeil(x) == Call("F64Ceil", <<x>>)
FRoundInt(x) == Call("F64RoundInt", <<x>>)
\* x > y, x < y, max(x, y), |x - y|
FGt(x, y) == Call("F64Cmp", <<x, y>>) > 0
FLt(x, y) == Call("F64Cmp", <<x, y>>) < 0
FMax(x, y) == IF FGt(y, x) THEN y ELSE x
FAbsDiff(x, y) == IF FLt(x, y) THEN FSub(y, x) ELSE FSub(x, y)

\* the float of a decimal literal num/den (den a power of ten): Python parses
\* it to the binary64 nearest to num/den, which is what the division gives
FLit(num, den) == FDiv(FOfInt(num), FOfInt(den))

(***************************************************************************)
(* Geometry.  A frame is [dx, dy, angle, zoom_percent, missing,            *)
(* is_reference]: dx and dy count 1/PX pixel, angle counts 1/ANGLE_DEN     *)
(* radian, zoom_percent is a whole percentage.  A rectangle is [x, y, w,   *)
(* h] in whole source pixels.  A setting written as a decimal in the       *)
(* configuration is the pair <<num, den>>; the program sees Dec of it.     *)
(***************************************************************************)
PX == 2
ANGLE_DEN == 100

Max(a, b) == IF a > b THEN a ELSE b
Min(a, b) == IF a < b THEN a ELSE b
Abs(a) == IF a < 0 THEN 0 - a ELSE a

\* CeilPx with the rounding turned outward: the floor in its place
CeilPxOutward(v) == v \div PX

\* int(math.ceil(v)) and int(math.floor(v)) of v counted in 1/PX pixel
CeilPx(v) == 0 - ((0 - v) \div PX)
FloorPx(v) == v \div PX

EmptyRect == [x |-> 0, y |-> 0, w |-> 0, h |-> 0]

\* float(c) of a configuration decimal c = <<num, den>>
Dec(c) == FLit(c[1], c[2])

\* (left, top, right, bottom) in 1/PX pixel
compute_valid_bbox(width, height, dx, dy) ==
    LET shift_x == 0 - dx
        shift_y == 0 - dy
        left == Max(0, shift_x)
        right == Min(width * PX, width * PX + shift_x)
        top == Max(0, shift_y)
        bottom == Min(height * PX, height * PX + shift_y)
    IN  <<left, top, right, bottom>>

\* StaticCropFrame with the shift taken with the sign of the translation
StaticCropFrameSignFlipped(width, height, acc, item) ==
    IF item.missing THEN acc
    ELSE [left |-> Max(acc.left, Max(0, item.dx)),
          right |-> Min(acc.right, Min(width * PX, width * PX + item.dx)),
          top |-> Max(acc.top, Max(0, item.dy)),
          bottom |-> Min(acc.bottom, Min(height * PX, height * PX + item.dy))]

\* the loop body of compute_static_crop: intersect the running rectangle
\* with the frame's shifted extent; missing frames are skipped
StaticCropFrame(width, height, acc, item) ==
    IF item.missing THEN acc
    ELSE LET shift_x == 0 - item.dx
             shift_y == 0 - item.dy
             frame_left == Max(0, shift_x)
             frame_right == Min(width * PX, width * PX + shift_x)
             frame_top == Max(0, shift_y)
             frame_bottom == Min(height * PX, height * PX + shift_y)
         IN  [left |-> Max(acc.left, frame_left),
              right |-> Min(acc.right, frame_right),
              top |-> Max(acc.top, frame_top),
              bottom |-> Min(acc.bottom, frame_bottom)]

\* AspectFit without the test that the fitted rectangle is not degenerate
AspectFitUnchecked(width, height, x0, y0, x1, y1) ==
    LET raw_w == x1 - x0
        raw_h == y1 - y0
    IN  IF raw_w <= 0 \/ raw_h <= 0 THEN [x |-> 0, y |-> 0, w |-> 0, h |-> 0]
        ELSE LET desired_aspect == FDiv(FOfInt(width), FOfInt(height))
                 wide == FGt(FDiv(FOfInt(raw_w), FOfInt(raw_h)), desired_aspect)
                 crop_h == IF wide THEN raw_h
                           ELSE FFloor(FDiv(FOfInt(raw_w), desired_aspect))
                 crop_w == IF wide THEN FFloor(FMul(FOfInt(raw_h), desired_aspect))
                           ELSE raw_w
             IN  [x |-> x0 + ((raw_w - crop_w) \div 2),
                  y |-> y0 + ((raw_h - crop_h) \div 2),
                  w |-> crop_w, h |-> crop_h]

\* AspectFit without the fit: the raw rectangle itself
AspectFitRaw(width, height, x0, y0, x1, y1) ==
    IF x1 - x0 <= 0 \/ y1 - y0 <= 0 THEN [x |-> 0, y |-> 0, w |-> 0, h |-> 0]
    ELSE [x |-> x0, y |-> y0, w |-> x1 - x0, h |-> y1 - y0]

\* the largest centered rectangle of the source aspect inside the raw
\* rectangle <<x0, y0, x1, y1>>
AspectFit(width, height, x0, y0, x1, y1) ==
    LET raw_w == x1 - x0
        raw_h == y1 - y0
    IN  IF raw_w <= 0 \/ raw_h <= 0 THEN EmptyRect
        ELSE LET desired_aspect == FDiv(FOfInt(width), FOfInt(height))
                 wide == FGt(FDiv(FOfInt(raw_w), FOfInt(raw_h)), desired_aspect)
                 crop_h == IF wide THEN raw_h
                           ELSE FFloor(FDiv(FOfInt(raw_w), desired_aspect))
                 crop_w == IF wide THEN FFloor(FMul(FOfInt(raw_h), desired_aspect))
                           ELSE raw_w
             IN  IF crop_w <= 0 \/ crop_h <= 0 THEN EmptyRect
                 ELSE [x |-> x0 + ((raw_w - crop_w) \div 2),
                       y |-> y0 + ((raw_h - crop_h) \div 2),
                       w |-> crop_w, h |-> crop_h]

\* the intersection of the frames' extents, in 1/PX pixel
StaticCropBounds(width, height, transforms) ==
    FoldRange(LAMBDA acc, i : StaticCropFrame(width, height, acc, transforms[i]),
              [left |-> 0, top |-> 0, right |-> width * PX, bottom |-> height * PX],
              1, Len(transforms))

\* the rectangle compute_static_crop fits into the bounds b
StaticCropRect(width, height, b) ==
    AspectFit(width, height, CeilPx(b.left), CeilPx(b.top),
              FloorPx(b.right), FloorPx(b.bottom))

compute_static_crop(width, height, transforms) ==
    StaticCropRect(width, height, StaticCropBounds(width, height, transforms))

\* the checks shared by crop_constraints_ok and crop_basic_constraints_ok
\* before the area test: the reason that makes them return at once, or ""
CropBoundsReason(width, height, crop_rect) ==
    IF crop_rect.w <= 0 \/ crop_rect.h <= 0 THEN "crop rectangle is empty"
    ELSE IF crop_rect.w > width \/ crop_rect.h > height
         THEN "crop rectangle exceeds frame bounds"
    ELSE IF \/ crop_rect.x < 0 \/ crop_rect.y < 0
            \/ crop_rect.x + crop_rect.w > width
            \/ crop_rect.y + crop_rect.h > height
         THEN "crop rectangle is out of bounds"
    ELSE ""

AreaRatio(width, height, crop_rect) ==
    FDiv(FMul(FOfInt(crop_rect.w), FOfInt(crop_rect.h)),
         FMul(FOfInt(width), FOfInt(height)))

AreaHeightReasons(width, height, crop_rect, min_area_ratio, min_height_px) ==
    (IF FLt(AreaRatio(width, height, crop_rect), Dec(min_area_ratio))
     THEN <<"crop area below min_area_ratio">> ELSE <<>>)
    \o (IF crop_rect.h < min_height_px
        THEN <<"crop height below min_height_px">> ELSE <<>>)

crop_basic_constraints_ok(width, height, crop_rect, min_area_ratio, min_height_px) ==
    LET early == CropBoundsReason(width, height, crop_rect)
        reasons == IF early # "" THEN <<early>>
                   ELSE AreaHeightReasons(width, height, crop_rect,
                                          min_area_ratio, min_height_px)
    IN  [ok |-> reasons = <<>>, reasons |-> reasons]

\* crop_constraints_ok with the safe margin read as pixels, not as a fraction
CropConstraintsMarginInPixels(width, height, crop_rect, min_area_ratio, min_height_px, center_safe_margin) ==
    LET early == CropBoundsReason(width, height, crop_rect)
        safe_left == Dec(center_safe_margin)
        safe_top == Dec(center_safe_margin)
        safe_right == FSub(FOfInt(width), safe_left)
        safe_bottom == FSub(FOfInt(height), safe_top)
        reasons ==
            IF early # "" THEN <<early>>
            ELSE AreaHeightReasons(width, height, crop_rect, min_area_ratio, min_height_px)
                 \o (IF \/ FGt(FOfInt(crop_rect.x), safe_left)
                         \/ FGt(FOfInt(crop_rect.y), safe_top)
                      THEN <<"crop does not include center safe region (left/top)">>
                      ELSE <<>>)
                 \o (IF \/ FLt(FOfInt(crop_rect.x + crop_rect.w), safe_right)
                         \/ FLt(FOfInt(crop_rect.y + crop_rect.h), safe_bottom)
                      THEN <<"crop does not include center safe region (right/bottom)">>
                      ELSE <<>>)
    IN  [ok |-> reasons = <<>>, reasons |-> reasons]

\* crop_constraints_ok without the height and center-safe tests
CropConstraintsAreaOnly(width, height, crop_rect, min_area_ratio, min_height_px, center_safe_margin) ==
    crop_basic_constraints_ok(width, height, crop_rect, min_area_ratio, 0)

crop_constraints_ok(width, height, crop_rect, min_area_ratio, min_height_px, center_safe_margin) ==
    LET early == CropBoundsReason(width, height, crop_rect)
        safe_left == FMul(FOfInt(width), Dec(center_safe_margin))
        safe_top == FMul(FOfInt(height), Dec(center_safe_margin))
        safe_right == FSub(FOfInt(width), safe_left)
        safe_bottom == FSub(FOfInt(height), safe_top)
        reasons ==
            IF early # "" THEN <<early>>
            ELSE AreaHeightReasons(width, height, crop_rect, min_area_ratio, min_height_px)
                 \o (IF \/ FGt(FOfInt(crop_rect.x), safe_left)
                         \/ FGt(FOfInt(crop_rect.y), safe_top)
                      THEN <<"crop does not include center safe region (left/top)">>
                      ELSE <<>>)
                 \o (IF \/ FLt(FOfInt(crop_rect.x + crop_rect.w), safe_right)
                         \/ FLt(FOfInt(crop_rect.y + crop_rect.h), safe_bottom)
                      THEN <<"crop does not include center safe region (right/bottom)">>
                      ELSE <<>>)
    IN  [ok |-> reasons = <<>>, reasons |-> reasons]

compute_minimum_centered_crop(width, height, min_area_ratio, min_height_px) ==
    LET aspect == FDiv(FOfInt(width), FOfInt(height))
        required_area == FMul(FMul(Dec(min_area_ratio), FOfInt(width)), FOfInt(height))
        required_h == IF FGt(required_area, FZero)
                      THEN FMax(FOfInt(min_height_px), FSqrt(FDiv(required_area, aspect)))
                      ELSE FOfInt(min_height_px)
        required_w == FMul(required_h, aspect)
        crop_w == FCeil(required_w)
        crop_h == FCeil(required_h)
    IN  IF FGt(required_h, FOfInt(height)) THEN EmptyRect
        ELSE IF FGt(required_w, FOfInt(width)) THEN EmptyRect
        ELSE IF crop_w <= 0 \/ crop_h <= 0 THEN EmptyRect
        ELSE IF crop_w > width \/ crop_h > height THEN EmptyRect
        ELSE [x |-> (width - crop_w) \div 2, y |-> (height - crop_h) \div 2,
              w |-> crop_w, h |-> crop_h]

(***************************************************************************)
(* Fill budget of a fixed crop rectangle over a motion path.               *)
(***************************************************************************)
FOne == FOfInt(1)

\* FillBudgetCount that takes every counted frame as needing fill
FillBudgetCountEveryFrame(st, fill_area, area, gap) ==
    LET fill_ratio == FDiv(FOfInt(fill_area), FOfInt(area))
        run == st.current_run + 1
    IN  [total_frames |-> st.total_frames + 1,
         frames_with_fill |-> st.frames_with_fill + 1,
         max_fill_ratio |-> FMax(st.max_fill_ratio, fill_ratio),
         max_gap_px |-> Max(st.max_gap_px, gap),
         current_run |-> run,
         max_run |-> Max(st.max_run, run)]

\* the accumulators of compute_fill_budget after a frame whose fill area is
\* fill_area of the crop's area, with a largest border gap of gap
FillBudgetCount(st, fill_area, area, gap) ==
    LET fill_ratio == FDiv(FOfInt(fill_area), FOfInt(area))
        run == IF fill_area > 0 THEN st.current_run + 1 ELSE 0
    IN  [total_frames |-> st.total_frames + 1,
         frames_with_fill |-> st.frames_with_fill + (IF fill_area > 0 THEN 1 ELSE 0),
         max_fill_ratio |-> FMax(st.max_fill_ratio, fill_ratio),
         max_gap_px |-> Max(st.max_gap_px, gap),
         current_run |-> run,
         max_run |-> IF fill_area > 0 THEN Max(st.max_run, run) ELSE st.max_run]

\* the crop rectangle <<cx, cy, cw, ch>> against a frame's valid box
FillBudgetBox(st, cx, cy, cw, ch, left, top, right, bottom) ==
    LET iw == Max(0, Min(cx + cw, right) - Max(cx, left))
        ih == Max(0, Min(cy + ch, bottom) - Max(cy, top))
        gap_left == Max(0, cx - left)
        gap_right == Max(0, (cx + cw) - right)
        gap_top == Max(0, cy - top)
        gap_bottom == Max(0, (cy + ch) - bottom)
    IN  FillBudgetCount(st, Max(0, cw * ch - iw * ih), cw * ch,
                        Max(Max(gap_left, gap_right), Max(gap_top, gap_bottom)))

\* the loop body of compute_fill_budget; lengths in 1/PX pixel, areas in
\* 1/PX^2 pixel, so that fill_ratio divides the same two reals as the source
FillBudgetFrame(width, height, crop_rect, st, item) ==
    IF item.missing \/ item.is_reference THEN st
    ELSE LET bbox == compute_valid_bbox(width, height, item.dx, item.dy)
         IN  FillBudgetBox(st, crop_rect.x * PX, crop_rect.y * PX,
                           crop_rect.w * PX, crop_rect.h * PX,
                           bbox[1], bbox[2], bbox[3], bbox[4])

\* FillBudgetResult with the run budget exceeded as soon as it is reached
FillBudgetResultInclusive(st, max_area_ratio, max_frames_ratio, max_consecutive_frames) ==
    LET frames_ratio == IF st.total_frames > 0
                        THEN FDiv(FOfInt(st.frames_with_fill), FOfInt(st.total_frames))
                        ELSE FOne
        reasons ==
            (IF FGt(st.max_fill_ratio, Dec(max_area_ratio))
             THEN <<"max_area_ratio exceeded">> ELSE <<>>)
            \o (IF FGt(frames_ratio, Dec(max_frames_ratio))
                THEN <<"max_frames_ratio exceeded">> ELSE <<>>)
            \o (IF max_consecutive_frames >= 0 /\ st.max_run >= max_consecutive_frames
                THEN <<"max_consecutive_frames exceeded">> ELSE <<>>)
    IN  [pass |-> reasons = <<>>,
         reasons |-> reasons,
         total_frames |-> st.total_frames,
         frames_with_fill |-> st.frames_with_fill,
         frames_ratio |-> frames_ratio,
         max_consecutive_frames |-> st.max_run,
         max_fill_area_ratio |-> st.max_fill_ratio,
         max_gap_px |-> st.max_gap_px]

\* the verdict of compute_fill_budget on the accumulators st
FillBudgetResult(st, max_area_ratio, max_frames_ratio, max_consecutive_frames) ==
    LET frames_ratio == IF st.total_frames > 0
                        THEN FDiv(FOfInt(st.frames_with_fill), FOfInt(st.total_frames))
                        ELSE FOne
        reasons ==
            (IF FGt(st.max_fill_ratio, Dec(max_area_ratio))
             THEN <<"max_area_ratio exceeded">> ELSE <<>>)
            \o (IF FGt(frames_ratio, Dec(max_frames_ratio))
                THEN <<"max_frames_ratio exceeded">> ELSE <<>>)
            \o (IF max_consecutive_frames >= 0 /\ st.max_run > max_consecutive_frames
                THEN <<"max_consecutive_frames exceeded">> ELSE <<>>)
    IN  [pass |-> reasons = <<>>,
         reasons |-> reasons,
         total_frames |-> st.total_frames,
         frames_with_fill |-> st.frames_with_fill,
         frames_ratio |-> frames_ratio,
         max_consecutive_frames |-> st.max_run,
         max_fill_area_ratio |-> st.max_fill_ratio,
         max_gap_px |-> st.max_gap_px]

\* max_gap_px of the result counts 1/PX pixel
compute_fill_budget(transforms, width, height, crop_rect, max_area_ratio, max_frames_ratio, max_consecutive_frames) ==
    IF crop_rect.w <= 0 \/ crop_rect.h <= 0
    THEN [pass |-> FALSE, reason |-> "invalid crop rectangle"]
    ELSE FillBudgetResult(
             FoldRange(LAMBDA acc, i : FillBudgetFrame(width, height, crop_rect,
                                                       acc, transforms[i]),
                       [total_frames |-> 0, frames_with_fill |-> 0,
                        max_fill_ratio |-> FZero, max_gap_px |-> 0,
                        current_run |-> 0, max_run |-> 0],
                       1, Len(transforms)),
             max_area_ratio, max_frames_ratio, max_consecutive_frames)

(***************************************************************************)
(* Motion reliability.                                                     *)
(***************************************************************************)
\* sorted(values)[k - 1]: the k-th smallest element
SortedAt(values, k) ==
    CHOOSE v \in {values[i] : i \in 1..Len(values)} :
        /\ Cardinality({i \in 1..Len(values) : values[i] < v}) < k
        /\ Cardinality({i \in 1..Len(values) : values[i] <= v}) >= k

\* twice the median of a non-empty list, in the unit of the values
median(values) ==
    LET mid == Len(values) \div 2
    IN  IF Len(values) % 2 = 1 THEN 2 * SortedAt(values, mid + 1)
        ELSE SortedAt(values, mid) + SortedAt(values, mid + 1)

\* four times the median absolute deviation, in the unit of the values
mad(values) ==
    LET center == median(values)
        dev == [i \in 1..Len(values) |-> Abs(2 * values[i] - center)]
    IN  median(dev)

\* 1.0 + zoom_percent / 100.0, for zoom_percent >= -100 (the sum with a
\* negative quotient is the difference with its magnitude)
scale_ratio_from_zoom_percent(zoom_percent) ==
    IF zoom_percent >= 0
    THEN FAdd(FOne, FDiv(FOfInt(zoom_percent), FOfInt(100)))
    ELSE FSub(FOne, FDiv(FOfInt(0 - zoom_percent), FOfInt(100)))

\* float(v) of an angle counted in 1/ANGLE_DEN radian, v >= 0
AngleF(v) == FLit(v, ANGLE_DEN)

MaxOf(S) == CHOOSE v \in S : \A u \in S : u <= v

\* the positions, in order, of the frames that are neither missing nor the reference
UsableIndices(transforms) ==
    SelectSeq([i \in 1..Len(transforms) |-> i],
              LAMBDA i : ~transforms[i].missing /\ ~transforms[i].is_reference)

\* the scale jump between the usable frames at positions i and i + 1 of
\* usable_indices: [at |-> idx1, jump |-> |s1 / s0 - 1|, counted |-> s0 > 0]
ScaleJumpAt(transforms, usable_indices, i) ==
    LET s0 == scale_ratio_from_zoom_percent(transforms[usable_indices[i]].zoom_percent)
        s1 == scale_ratio_from_zoom_percent(transforms[usable_indices[i + 1]].zoom_percent)
        counted == FGt(s0, FZero)
    IN  [at |-> usable_indices[i + 1],
         jump |-> IF counted THEN FAbsDiff(FDiv(s1, s0), FOne) ELSE FZero,
         counted |-> counted]

budget_stats(usable_indices, bad_set) ==
    LET st == FoldRange(
                LAMBDA acc, i :
                    IF usable_indices[i] \in bad_set
                    THEN [bad_count |-> acc.bad_count + 1, run |-> acc.run + 1,
                          max_run |-> Max(acc.max_run, acc.run + 1)]
                    ELSE [acc EXCEPT !.run = 0],
                [bad_count |-> 0, run |-> 0, max_run |-> 0],
                1, Len(usable_indices))
        total_frames == Len(usable_indices)
    IN  [bad_frames |-> st.bad_count,
         total_frames |-> total_frames,
         bad_frames_ratio |-> IF total_frames > 0
                              THEN FDiv(FOfInt(st.bad_count), FOfInt(total_frames))
                              ELSE FOne,
         max_consecutive_bad_frames |-> st.max_run]

\* an outlier budget is exceeded by its ratio or by its longest run
OverBudget(budget, outlier_max_frames_ratio, outlier_max_consecutive) ==
    \/ FGt(budget.bad_frames_ratio, Dec(outlier_max_frames_ratio))
    \/ budget.max_consecutive_bad_frames > outlier_max_consecutive

\* float(missing) / float(len(non_reference)), or 1.0 without such frames
MissingFraction(transforms) ==
    LET non_reference == {i \in 1..Len(transforms) : ~transforms[i].is_reference}
        missing == Cardinality({i \in non_reference : transforms[i].missing})
    IN  IF non_reference # {}
        THEN FDiv(FOfInt(missing), FOfInt(Cardinality(non_reference)))
        ELSE FOne

\* the scale jumps the loop over usable_indices appends
WorstScaleJumps(transforms, usable_indices) ==
    SelectSeq(IF Len(usable_indices) <= 1 THEN <<>>
              ELSE [i \in 1..(Len(usable_indices) - 1) |->
                      ScaleJumpAt(transforms, usable_indices, i)],
              LAMBDA j : j.counted)

MaxScaleJump(worst_scale_jumps) ==
    FoldRange(LAMBDA acc, i : FMax(acc, worst_scale_jumps[i].jump),
              FZero, 1, Len(worst_scale_jumps))

\* the frames whose |angle|, |zoom_percent|, scale jump exceeds its threshold
AngleBad(transforms, usable_indices, threshold_angle) ==
    {idx \in {usable_indices[i] : i \in 1..Len(usable_indices)} :
        FGt(AngleF(Abs(transforms[idx].angle)), threshold_angle)}

ZoomBad(transforms, usable_indices, threshold_zoom) ==
    {idx \in {usable_indices[i] : i \in 1..Len(usable_indices)} :
        FGt(FOfInt(Abs(transforms[idx].zoom_percent)), threshold_zoom)}

ScaleBad(worst_scale_jumps, threshold_scale_jump) ==
    {worst_scale_jumps[i].at : i \in
        {k \in 1..Len(worst_scale_jumps) :
            FGt(worst_scale_jumps[k].jump, threshold_scale_jump)}}

\* the stats dictionary; present lists the frames that are not missing
MotionStats(width, height, transforms, rejection, present, usable_indices, worst_scale_jumps) ==
    LET dx_values == [i \in 1..Len(present) |-> present[i].dx]
        dy_values == [i \in 1..Len(present) |-> present[i].dy]
        angle_bad == AngleBad(transforms, usable_indices,
                              Dec(rejection.max_abs_angle_rad))
        zoom_bad == ZoomBad(transforms, usable_indices,
                            Dec(rejection.max_abs_zoom_percent))
        scale_bad == ScaleBad(worst_scale_jumps, Dec(rejection.max_scale_jump))
    IN  [missing_fraction |-> MissingFraction(transforms),
         mad_tx_fraction |-> FDiv(FOfInt(mad(dx_values)), FOfInt(4 * PX * width)),
         mad_ty_fraction |-> FDiv(FOfInt(mad(dy_values)), FOfInt(4 * PX * height)),
         max_scale_jump |-> MaxScaleJump(worst_scale_jumps),
         max_abs_angle_rad |-> MaxOf({Abs(present[i].angle) : i \in 1..Len(present)}),
         max_abs_zoom_percent |->
             MaxOf({Abs(present[i].zoom_percent) : i \in 1..Len(present)}),
         rejection_mode |-> rejection.mode,
         angle_outliers |-> budget_stats(usable_indices, angle_bad),
         zoom_outliers |-> budget_stats(usable_indices, zoom_bad),
         scale_jump_outliers |-> budget_stats(usable_indices, scale_bad),
         combined_outliers |->
             budget_stats(usable_indices, angle_bad \cup zoom_bad \cup scale_bad)]

\* the reasons appended once the path has a frame that is not missing
MotionReasons(stats, rejection) ==
    LET max_mode == rejection.mode = "max"
        ratio == rejection.outlier_max_frames_ratio
        consecutive == rejection.outlier_max_consecutive_frames
    IN  (IF FGt(stats.missing_fraction, Dec(rejection.max_missing_fraction))
         THEN <<"unreliable_motion_missing">> ELSE <<>>)
        \o (IF \/ FGt(stats.mad_tx_fraction, Dec(rejection.max_mad_fraction))
               \/ FGt(stats.mad_ty_fraction, Dec(rejection.max_mad_fraction))
            THEN <<"unreliable_motion_mad">> ELSE <<>>)
        \o (IF IF max_mode
               THEN FGt(AngleF(stats.max_abs_angle_rad),
                        Dec(rejection.max_abs_angle_rad))
               ELSE OverBudget(stats.angle_outliers, ratio, consecutive)
            THEN <<"unreliable_motion_angle">> ELSE <<>>)
        \o (IF IF max_mode
               THEN FGt(FOfInt(stats.max_abs_zoom_percent),
                        Dec(rejection.max_abs_zoom_percent))
               ELSE OverBudget(stats.zoom_outliers, ratio, consecutive)
            THEN <<"unreliable_motion_zoom">> ELSE <<>>)
        \o (IF IF max_mode
               THEN FGt(stats.max_scale_jump, Dec(rejection.max_scale_jump))
               ELSE OverBudget(stats.scale_jump_outliers, ratio, consecutive)
            THEN <<"unreliable_motion_scale">> ELSE <<>>)

\* (ok, reasons, stats) as the function returns them
MotionVerdict(reasons, stats) ==
    [ok |-> reasons = <<>>, reasons |-> reasons, stats |-> stats]

MotionChecked(stats, rejection) ==
    MotionVerdict(MotionReasons(stats, rejection), stats)

motion_reliability_ok(width, height, transforms, rejection) ==
    LET present == SelectSeq(transforms, LAMBDA item : ~item.missing)
        usable_indices == UsableIndices(transforms)
    IN  IF Len(present) = 0
        THEN MotionVerdict(<<"unreliable_motion_missing">>,
                           [missing_fraction |-> MissingFraction(transforms)])
        ELSE MotionChecked(
                 MotionStats(width, height, transforms, rejection, present,
                             usable_indices,
                             WorstScaleJumps(transforms, usable_indices)),
                 rejection)

\* the minimum crop height main() derives from the crop settings
effective_min_height(height, crop) ==
    IF crop.min_height_px <= 0
    THEN FRoundInt(FMul(FOfInt(height), Dec(crop.min_height_ratio)))
    ELSE crop.min_height_px

\* select_fill_crop that never reuses the static crop
SelectFillCropMinimumOnly(width, height, crop_rect, min_area_ratio, min_height_px) ==
    LET fallback == compute_minimum_centered_crop(width, height,
                                                   min_area_ratio, min_height_px)
    IN  [rect |-> fallback,
         ok |-> crop_basic_constraints_ok(width, height, fallback,
                                          min_area_ratio, min_height_px).ok]

\* the relaxed crop rectangle main() takes for the fill fallback: the static
\* crop when it meets the basic constraints, else the minimum centered crop
select_fill_crop(width, height, crop_rect, min_area_ratio, min_height_px) ==
    IF crop_basic_constraints_ok(width, height, crop_rect, min_area_ratio,
                                 min_height_px).ok
    THEN [rect |-> crop_rect, ok |-> TRUE]
    ELSE LET fallback == compute_minimum_centered_crop(width, height,
                                                       min_area_ratio, min_height_px)
         IN  [rect |-> fallback,
              ok |-> crop_basic_constraints_ok(width, height, fallback,
                                               min_area_ratio, min_height_px).ok]

\* int(math.ceil(float(max_gap_px) * zoom_factor)) + 2
FillBandPx(w, rect, stats) ==
    LET zoom_factor == IF rect.w > 0 THEN FDiv(FOfInt(w), FOfInt(rect.w)) ELSE FOne
        max_gap_px == IF "max_gap_px" \in DOMAIN stats
                      THEN FDiv(FOfInt(stats.max_gap_px), FOfInt(PX)) ELSE FZero
    IN  FCeil(FMul(max_gap_px, zoom_factor)) + 2

\* The program's functions are applied by name: Call(op, args) is op(args)
Call(op, args) ==
    CASE op = "BigToInt" -> BigToInt(args[1])
      [] op = "BigMulFrom" -> BigMulFrom(args[1], args[2], args[3])
      [] op = "BigMul" -> BigMul(args[1], args[2])
      [] op = "BigDivDigit" -> BigDivDigit(args[1], args[2], args[3])
      [] op = "BigDivLimb" -> BigDivLimb(args[1], args[2], args[3])
      [] op = "BigDivMod" -> BigDivMod(args[1], args[2])
      [] op = "BigSqrtFrom" -> BigSqrtFrom(args[1], args[2])
      [] op = "BigSqrt" -> BigSqrt(args[1])
      [] op = "F64Round" -> F64Round(args[1], args[2], args[3])
      [] op = "F64OfInt" -> F64OfInt(args[1])
      [] op = "F64Mul" -> F64Mul(args[1], args[2])
      [] op = "F64Div" -> F64Div(args[1], args[2])
      [] op = "F64Sqrt" -> F64Sqrt(args[1])
      [] op = "F64Cmp" -> F64Cmp(args[1], args[2])
      [] op = "F64Sub" -> F64Sub(args[1], args[2])
      [] op = "F64Add" -> F64Add(args[1], args[2])
      [] op = "F64Floor" -> F64Floor(args[1])
      [] op = "F64IsInt" -> F64IsInt(args[1])
      [] op = "F64Ceil" -> F64Ceil(args[1])
      [] op = "F64RoundInt" -> F64RoundInt(args[1])
      [] op = "effective_min_height" -> effective_min_height(args[1], args[2])
      [] op = "motion_reliability_ok" -> motion_reliability_ok(args[1], args[2], args[3], args[4])
      [] op = "compute_static_crop" -> compute_static_crop(args[1], args[2], args[3])
      [] op = "crop_constraints_ok" -> crop_constraints_ok(args[1], args[2], args[3], args[4], args[5], args[6])
      [] op = "select_fill_crop" -> select_fill_crop(args[1], args[2], args[3], args[4], args[5])
      [] op = "compute_fill_budget" -> compute_fill_budget(args[1], args[2], args[3], args[4], args[5], args[6], args[7])
      [] op = "FillBandPx" -> FillBandPx(args[1], args[2], args[3])
(***************************************************************************)
(* Settings.  A decimal of the configuration is the pair <<num, den>>;     *)
(* the program coerces it to a float, which Dec does where it is read.     *)
(***************************************************************************)
default_config ==
    [crop |-> [min_area_ratio |-> <<25, 100>>,
               min_height_px |-> 0,
               min_height_ratio |-> <<65, 100>>,
               center_safe_margin |-> <<10, 100>>],
     border |-> [mode |-> "crop_prefer_fill_fallback",
                 fill |-> [max_area_ratio |-> <<2, 100>>,
                           max_frames_ratio |-> <<2, 100>>,
                           max_consecutive_frames |-> 15]],
     rejection |-> [mode |-> "budgeted",
                    max_missing_fraction |-> <<5, 100>>,
                    max_mad_fraction |-> <<50, 100>>,
                    max_scale_jump |-> <<50, 100>>,
                    max_abs_angle_rad |-> <<60, 100>>,
                    max_abs_zoom_percent |-> <<35, 1>>,
                    outlier_max_frames_ratio |-> <<90, 100>>,
                    outlier_max_consecutive_frames |-> 600]]

\* the configuration of E2E B: the defaults with the fill budgets of the
\* scenario; E2E C lowers max_consecutive_frames to 0
ConfigE2EB ==
    [default_config EXCEPT !.border.fill.max_frames_ratio = <<5, 100>>,
                           !.border.fill.max_consecutive_frames = 1]
ConfigE2EC ==
    [ConfigE2EB EXCEPT !.border.fill.max_consecutive_frames = 0]

\* crop_only border mode, as in the strict-crop test, with max rejection mode
ConfigStrictCropOnly ==
    [default_config EXCEPT !.crop.min_area_ratio = <<99, 100>>,
                           !.border.mode = "crop_only",
                           !.rejection.mode = "max",
                           !.rejection.max_missing_fraction = <<0, 1>>,
                           !.rejection.max_mad_fraction = <<75, 100>>,
                           !.rejection.max_abs_angle_rad = <<1, 1>>,
                           !.rejection.max_abs_zoom_percent = <<10, 1>>]

\* a crop the solver cannot meet (as in the fill-fallback test) and a
\* rejection stage that lets every path through
ConfigFillFallback ==
    [default_config EXCEPT !.crop.min_area_ratio = <<90, 100>>,
                           !.border.fill.max_area_ratio = <<40, 100>>,
                           !.border.fill.max_frames_ratio = <<50, 100>>,
                           !.border.fill.max_consecutive_frames = 1,
                           !.rejection.max_missing_fraction = <<1, 1>>,
                           !.rejection.max_mad_fraction = <<1, 1>>,
                           !.rejection.max_abs_angle_rad = <<314, 100>>,
                           !.rejection.max_abs_zoom_percent = <<100, 1>>,
                           !.rejection.max_scale_jump = <<1, 1>>,
                           !.rejection.outlier_max_frames_ratio = <<1, 1>>]

\* a minimum crop height above the frame height of the small runs: no crop
\* rectangle of the frame can meet it
ConfigTallCrop == [ConfigFillFallback EXCEPT !.crop.min_height_px = 8]

\* budgets at their boundaries: one outlier frame in two allowed, runs of
\* one; every fill budget at zero
ConfigBudgetEdge ==
    [default_config EXCEPT !.crop.center_safe_margin = <<0, 1>>,
                           !.crop.min_area_ratio = <<50, 100>>,
                           !.border.fill.max_area_ratio = <<0, 1>>,
                           !.border.fill.max_frames_ratio = <<0, 1>>,
                           !.border.fill.max_consecutive_frames = 0,
                           !.rejection.max_missing_fraction = <<1, 1>>,
                           !.rejection.outlier_max_frames_ratio = <<50, 100>>,
                           !.rejection.outlier_max_consecutive_frames = 1]

(***************************************************************************)
(* The motion path text.  A record of the text is a data line of           *)
(* global_motions.trf together with the comment line that follows it:      *)
(* "none" (no comment, or a diagnostics comment) or "no fields".           *)
(***************************************************************************)
Line(dx, dy, angle, zoom_percent, comment) ==
    [dx |-> dx, dy |-> dy, angle |-> angle, zoom_percent |-> zoom_percent,
     comment |-> comment]

parse_global_motions_text(text) ==
    [i \in 1..Len(text) |->
        [dx |-> text[i].dx, dy |-> text[i].dy, angle |-> text[i].angle,
         zoom_percent |-> text[i].zoom_percent,
         missing |-> text[i].comment = "no fields" /\ i > 1,
         is_reference |-> text[i].comment = "no fields" /\ i = 1]]

\* the longest path the motion analysis emits frame by frame
MaxFrames == 2

\* the lines the motion analysis may emit for a frame: still, sub-pixel
\* shift on both axes, one pixel right, one pixel left, a rotation above the
\* default threshold, a jolt of 8 pixels (about the width of the small
\* frames); a still and a jolt line followed by "no fields"
FrameLines ==
    { Line(0, 0, 0, 0, "none"),
      Line(1, 0 - (PX + 1), 0, 0, "none"),
      Line(PX, 0, 0, 0, "none"),
      Line(0 - PX, 0, 0, 0, "none"),
      Line(0, 0, 70, 0, "none"),
      Line(8 * PX, 0, 0, 0, "none"),
      Line(0, 0, 0, 0, "no fields"),
      Line(8 * PX, 0, 0, 0, "no fields") }

\* the runs whose motion path is emitted frame by frame
SmallRuns ==
    { [width |-> 9, height |-> 7, settings |-> default_config],
      [width |-> 8, height |-> 6, settings |-> ConfigStrictCropOnly],
      [width |-> 9, height |-> 7, settings |-> ConfigFillFallback],
      [width |-> 8, height |-> 6, settings |-> ConfigBudgetEdge],
      [width |-> 9, height |-> 7, settings |-> ConfigTallCrop] }

\* the oscillations of the end-to-end scenarios: frame 0 is the reference,
\* dx of frame i swings between -5 and +5 pixels and reaches both
Oscillation(kind, i) ==
    IF kind = "square" THEN (IF i % 2 = 1 THEN 5 * PX ELSE 0 - 5 * PX)
    ELSE IF kind = "triangle" THEN Abs((i % 20) - 10) * PX - 5 * PX
    ELSE (i % (10 * PX + 1)) - 5 * PX

E2EText(kind, jolt) ==
    [i \in 1..100 |->
        IF i = 1 THEN Line(0, 0, 0, 0, "no fields")
        ELSE IF jolt /\ i = 51 THEN Line(500 * PX, 0, 0, 0, "none")
        ELSE Line(Oscillation(kind, i - 1), 0, 0, 0, "none")]

E2ERuns ==
    { [width |-> 1920, height |-> 1080, settings |-> c, text |-> E2EText(k, j)] :
        c \in {default_config, ConfigE2EB, ConfigE2EC},
        k \in {"square", "triangle", "subpixel"}, j \in BOOLEAN }

(***************************************************************************)
(* The run of main().                                                      *)
(***************************************************************************)
VARIABLES width, height, settings, frame_count, global_text, pc,
          effective_min_height_px, transforms, motion, crop_rect, crop_check,
          fill_crop_rect, fill_stats, fill_band_px, report, exit_status,
          cache_dir, invocation, startup, sampler

vars == <<width, height, settings, frame_count, global_text, pc,
          effective_min_height_px, transforms, motion, crop_rect, crop_check,
          fill_crop_rect, fill_stats, fill_band_px, report, exit_status,
          cache_dir, invocation, startup, sampler>>

Unset == [unset |-> TRUE]
\* the report file: absent, or result.pass, result.mode, result.message and
\* motion.stats of the report written
NoReport ==
    [written |-> FALSE, pass |-> FALSE, mode |-> "", message |-> "", motion_stats |-> Unset,
     fill_color |-> Unset]

(***************************************************************************)
(* The analysis cache.  Invocations of the tool share the cache directory: *)
(* cache_dir.names maps a path to the file it names (0: no such file) and  *)
(* cache_dir.data gives each file's content, told by who wrote it and how  *)
(* far: a file is named after the invocation whose ffmpeg created it.      *)
(***************************************************************************)
Invocations == {1, 2}
\* what the invocations may differ in: the vidstabdetect parameters, and the
\* transform/crop/border/rejection settings
DetectChoices == {"shakiness 5", "shakiness 8"}
TuningChoices == {"default thresholds", "strict thresholds"}
Configs == [input : {"clip.mp4"}, detect : DetectChoices, tuning : TuningChoices]
Toolchain == "ffmpeg fingerprint"

\* sha256 of the canonical JSON text: equal digests for equal mappings, and
\* distinct digests for the distinct mappings of the runs
stable_hash_mapping(data) == [sha256 |-> data]

\* analysis_key that also hashes the transform/crop/border/rejection settings
AnalysisKeyOfAllSettings(config) ==
    stable_hash_mapping([input |-> config.input, detect |-> config.detect,
                         tuning |-> config.tuning, toolchain |-> Toolchain])

analysis_key(config) ==
    stable_hash_mapping([input |-> config.input, detect |-> config.detect,
                         toolchain |-> Toolchain])

run_key(config) ==
    stable_hash_mapping([analysis_key |-> analysis_key(config),
                         tuning |-> config.tuning, toolchain |-> Toolchain])

trf_path(key) == <<key, "transforms.trf">>
temp_trf(key) == <<key, "tmp.trf">>
CachePaths ==
    {trf_path(analysis_key(c)) : c \in Configs} \cup {temp_trf(analysis_key(c)) : c \in Configs}

NoData == [state |-> "none", by |-> 0]
EmptyCache ==
    [names |-> [path \in CachePaths |-> 0], data |-> [f \in Invocations |-> NoData]]
IdleInvocation ==
    [pc |-> "idle", config |-> Unset, handle |-> 0, detect_ran |-> FALSE,
     detect_status |-> "none", cache_hit |-> FALSE, started_after |-> {}, frames_read |-> "none",
     report |-> Unset]
CacheIdle ==
    /\ cache_dir = EmptyCache
    /\ invocation = [p \in Invocations |-> IdleInvocation]

(***************************************************************************)
(* The start of main(): the command line, the configuration files and      *)
(* build_settings.  A configuration mapping holds the settings of the      *)
(* decision pipeline under core and the remaining settings beside it.  Its *)
(* decimals have few digits, so that comparing num/den with 0, 1/2 and 1   *)
(* decides as the comparison of the coerced floats does.                   *)
(***************************************************************************)
ConfigMapping(core) ==
    [engine |-> [kind |-> "vidstab",
                 detect |-> [shakiness |-> 5, accuracy |-> 15, stepsize |-> 6,
                             mincontrast |-> <<25, 100>>, reference_frame |-> 1],
                 transform |-> [optalgo |-> "opt", smoothing |-> 15]],
     sampling |-> [kind |-> "center_patch_median", patch_fraction |-> <<10, 100>>,
                   sample_frames |-> 25],
     io |-> [report_format |-> "yaml"],
     core |-> core]

DecBelow(d, num, den) == d[1] * den < num * d[2]
DecAbove(d, num, den) == d[1] * den > num * d[2]
DecOutsideUnit(d) == DecBelow(d, 0, 1) \/ DecAbove(d, 1, 1)

\* build_settings that tests nothing
BuildSettingsUnchecked(c) == [error |-> "", settings |-> c.core]

\* the tests of build_settings in their order, each with its message
SettingsChecks(c) ==
    LET detect == c.engine.detect
        crop == c.core.crop
        fill == c.core.border.fill
        rejection == c.core.rejection
    IN  << <<c.engine.kind # "vidstab", "only engine.kind: vidstab is supported">>,
           <<c.io.report_format \notin {"yaml", "json"}, "report_format must be yaml or json">>,
           <<detect.shakiness < 1 \/ detect.shakiness > 10, "shakiness must be 1..10">>,
           <<detect.accuracy < 1 \/ detect.accuracy > 15, "accuracy must be 1..15">>,
           <<detect.accuracy < detect.shakiness, "accuracy must be >= shakiness">>,
           <<detect.stepsize < 1 \/ detect.stepsize > 32, "stepsize must be 1..32">>,
           <<DecOutsideUnit(detect.mincontrast), "mincontrast must be 0..1">>,
           <<detect.reference_frame < 1, "reference_frame must be >= 1">>,
           <<c.engine.transform.smoothing < 0, "smoothing must be >= 0">>,
           <<crop.min_area_ratio[1] <= 0 \/ DecAbove(crop.min_area_ratio, 1, 1),
             "min_area_ratio must be > 0 and <= 1">>,
           <<crop.min_height_px < 0, "min_height_px must be >= 0">>,
           <<DecOutsideUnit(crop.min_height_ratio), "min_height_ratio must be 0..1">>,
           <<crop.min_height_px = 0 /\ crop.min_height_ratio[1] = 0,
             "either min_height_px or min_height_ratio must be set">>,
           <<DecBelow(crop.center_safe_margin, 0, 1) \/ ~DecBelow(crop.center_safe_margin, 1, 2),
             "center_safe_margin must be >= 0 and < 0.5">>,
           <<c.core.border.mode \notin {"crop_only", "crop_prefer_fill_fallback"},
             "border.mode must be crop_only or crop_prefer_fill_fallback">>,
           <<c.sampling.kind # "center_patch_median",
             "border.fill.kind must be center_patch_median">>,
           <<c.sampling.patch_fraction[1] <= 0 \/ DecAbove(c.sampling.patch_fraction, 1, 2),
             "border.fill.patch_fraction must be > 0 and <= 0.5">>,
           <<c.sampling.sample_frames <= 0, "border.fill.sample_frames must be positive">>,
           <<DecOutsideUnit(fill.max_area_ratio), "border.fill.max_area_ratio must be 0..1">>,
           <<DecOutsideUnit(fill.max_frames_ratio), "border.fill.max_frames_ratio must be 0..1">>,
           <<fill.max_consecutive_frames < 0,
             "border.fill.max_consecutive_frames must be >= 0">>,
           <<rejection.mode \notin {"max", "budgeted"}, "rejection.mode must be max or budgeted">>,
           <<DecOutsideUnit(rejection.max_missing_fraction), "max_missing_fraction must be 0..1">>,
           <<rejection.max_mad_fraction[1] <= 0, "max_mad_fraction must be positive">>,
           <<rejection.max_scale_jump[1] <= 0, "max_scale_jump must be positive">>,
           <<rejection.max_abs_angle_rad[1] < 0, "max_abs_angle_rad must be >= 0">>,
           <<rejection.max_abs_zoom_percent[1] < 0, "max_abs_zoom_percent must be >= 0">>,
           <<DecOutsideUnit(rejection.outlier_max_frames_ratio),
             "outlier_max_frames_ratio must be 0..1">>,
           <<rejection.outlier_max_consecutive_frames < 0,
             "outlier_max_consecutive_frames must be >= 0">>,
           <<c.engine.transform.optalgo \notin {"opt", "gauss", "avg"},
             "optalgo must be opt, gauss, or avg">> >>

\* build_settings: the message of the first test that fails, or the settings
build_settings(c) ==
    LET checks == SettingsChecks(c)
        failed == {i \in 1..Len(checks) : checks[i][1]}
    IN  IF failed # {}
        THEN [error |-> checks[CHOOSE i \in failed : \A j \in failed : i <= j][2],
              settings |-> Unset]
        ELSE [error |-> "", settings |-> c.core]

\* configuration files a run may find: valid ones, and for each test of
\* build_settings one that fails it
DefaultMapping == ConfigMapping(default_config)
ValidMappings ==
    {DefaultMapping, ConfigMapping(ConfigStrictCropOnly), ConfigMapping(ConfigFillFallback)}
InvalidMappings ==
    { [DefaultMapping EXCEPT !.engine.kind = "other"],
      [DefaultMapping EXCEPT !.io.report_format = "xml"],
      [DefaultMapping EXCEPT !.engine.detect.shakiness = 11],
      [DefaultMapping EXCEPT !.engine.detect.accuracy = 16],
      [DefaultMapping EXCEPT !.engine.detect.accuracy = 4],
      [DefaultMapping EXCEPT !.engine.detect.stepsize = 0],
      [DefaultMapping EXCEPT !.engine.detect.mincontrast = <<11, 10>>],
      [DefaultMapping EXCEPT !.engine.detect.reference_frame = 0],
      [DefaultMapping EXCEPT !.engine.transform.smoothing = 0 - 1],
      [DefaultMapping EXCEPT !.core.crop.min_area_ratio = <<0, 1>>],
      [DefaultMapping EXCEPT !.core.crop.min_area_ratio = <<11, 10>>],
      [DefaultMapping EXCEPT !.core.crop.min_height_px = 0 - 1],
      [DefaultMapping EXCEPT !.core.crop.min_height_ratio = <<11, 10>>],
      [DefaultMapping EXCEPT !.core.crop.min_height_ratio = <<0, 1>>],
      [DefaultMapping EXCEPT !.core.crop.center_safe_margin = <<5, 10>>],
      [DefaultMapping EXCEPT !.core.crop.center_safe_margin = <<0 - 1, 10>>],
      [DefaultMapping EXCEPT !.core.border.mode = "fill_only"],
      [DefaultMapping EXCEPT !.sampling.kind = "mean"],
      [DefaultMapping EXCEPT !.sampling.patch_fraction = <<6, 10>>],
      [DefaultMapping EXCEPT !.sampling.sample_frames = 0],
      [DefaultMapping EXCEPT !.core.border.fill.max_area_ratio = <<11, 10>>],
      [DefaultMapping EXCEPT !.core.border.fill.max_frames_ratio = <<0 - 1, 10>>],
      [DefaultMapping EXCEPT !.core.border.fill.max_consecutive_frames = 0 - 1],
      [DefaultMapping EXCEPT !.core.rejection.mode = "median"],
      [DefaultMapping EXCEPT !.core.rejection.max_missing_fraction = <<11, 10>>],
      [DefaultMapping EXCEPT !.core.rejection.max_mad_fraction = <<0, 1>>],
      [DefaultMapping EXCEPT !.core.rejection.max_scale_jump = <<0, 1>>],
      [DefaultMapping EXCEPT !.core.rejection.max_abs_angle_rad = <<0 - 1, 10>>],
      [DefaultMapping EXCEPT !.core.rejection.max_abs_zoom_percent = <<0 - 1, 1>>],
      [DefaultMapping EXCEPT !.core.rejection.outlier_max_frames_ratio = <<11, 10>>],
      [DefaultMapping EXCEPT !.core.rejection.outlier_max_consecutive_frames = 0 - 1],
      [DefaultMapping EXCEPT !.engine.transform.optalgo = "median"] }

Absent == [absent |-> TRUE]
DefaultConfigPath == "clip.mp4.stabilize_building.config.yaml"
ExplicitConfigPath == "tuned.yaml"
NoPath == "none"
\* the command lines: -c, --use-default-config, --write-default-config, -o
CommandLines ==
    [config_file : {NoPath, ExplicitConfigPath}, use_default_config : BOOLEAN,
     write_default_config : BOOLEAN, output_given : BOOLEAN]
\* the configuration files on disk when the run starts
StartingFiles ==
    {[path \in {DefaultConfigPath, ExplicitConfigPath} |->
         IF path = DefaultConfigPath THEN d ELSE e] :
        d \in {Absent, DefaultMapping, [DefaultMapping EXCEPT !.core.border.mode = "fill_only"]},
        e \in {Absent} \cup ValidMappings \cup InvalidMappings}

StartupOf(args, files) ==
    [pc |-> "args", args |-> args, files |-> files, written |-> {},
     config |-> Unset, config_source |-> "", config_path_file |-> NoPath,
     error |-> "", exit_status |-> "running"]
\* the run is past its start: the command line of the decision pipeline
StartupIdle ==
    [StartupOf([config_file |-> NoPath, use_default_config |-> FALSE,
                write_default_config |-> FALSE, output_given |-> TRUE],
               [path \in {DefaultConfigPath, ExplicitConfigPath} |-> Absent])
        EXCEPT !.pc = "engine"]

(***************************************************************************)
(* The fill colour: one centre-patch pixel per sampled frame, the median   *)
(* of each channel, formatted as #rrggbb.                                  *)
(***************************************************************************)
\* the numbers of frames sampled (settings.border.fill.sample_frames)
SampleCounts == {4, 5}
\* the (red, green, blue) bytes ffmpeg returns for the patch of one frame
Pixels ==
    {<<100, 101, 102>>, <<101, 101, 100>>, <<103, 100, 101>>, <<102, 103, 103>>,
     <<255, 0, 100>>, <<0, 255, 254>>}

\* the samples of one channel
Channel(samples, c) == [i \in 1..Len(samples) |-> samples[i][c]]

\* int(round(m)) of a median m given as twice its value: halves go to the
\* even neighbour
RoundMedian(twice) ==
    IF twice % 2 = 0 THEN twice \div 2
    ELSE IF ((twice - 1) \div 2) % 2 = 0 THEN (twice - 1) \div 2
    ELSE (twice + 1) \div 2

HexDigits ==
    <<"0", "1", "2", "3", "4", "5", "6", "7", "8", "9", "a", "b", "c", "d", "e", "f">>
\* f"{v:02x}" for v in 0..255
Hex2(v) == <<HexDigits[(v \div 16) + 1], HexDigits[(v % 16) + 1]>>

rgb_hex(red, green, blue) ==
    LET r == Max(0, Min(255, red))
        g == Max(0, Min(255, green))
        b == Max(0, Min(255, blue))
    IN  <<"#">> \o Hex2(r) \o Hex2(g) \o Hex2(b)

\* the colour of the channel means in place of the channel medians
CenterPatchMeanColor(samples) ==
    LET Sum[k \in 0..Len(samples)] ==
            IF k = 0 THEN <<0, 0, 0>>
            ELSE <<Sum[k - 1][1] + samples[k][1], Sum[k - 1][2] + samples[k][2],
                   Sum[k - 1][3] + samples[k][3]>>
        n == Len(samples)
    IN  [color |-> rgb_hex(Sum[n][1] \div n, Sum[n][2] \div n, Sum[n][3] \div n),
         samples |-> n]

\* the result of compute_center_patch_median_color for the pixels sampled
compute_center_patch_median_color(samples) ==
    [color |-> rgb_hex(RoundMedian(median(Channel(samples, 1))),
                       RoundMedian(median(Channel(samples, 2))),
                       RoundMedian(median(Channel(samples, 3)))),
     samples |-> Len(samples)]

\* the sampler before it is called
SamplerIdle == [pc |-> "idle", count |-> 0, samples |-> <<>>, color |-> Unset]
\* the samples of the runs of the decision pipeline
PipelineSamples ==
    {<<<<100, 101, 102>>, <<255, 0, 100>>, <<101, 101, 100>>>>,
     <<<<0, 255, 254>>, <<102, 103, 103>>>>}

InitRest ==
    /\ pc = "start"
    /\ effective_min_height_px = 0
    /\ transforms = <<>>
    /\ motion = Unset
    /\ crop_rect = Unset
    /\ crop_check = Unset
    /\ fill_crop_rect = Unset
    /\ fill_stats = Unset
    /\ fill_band_px = 0
    /\ report = NoReport
    /\ exit_status = "running"
    /\ sampler = SamplerIdle

Init ==
    /\ \/ \E r \in SmallRuns :
              /\ width = r.width /\ height = r.height /\ settings = r.settings
              /\ frame_count \in 1..MaxFrames
              /\ global_text = <<>>
       \/ \E r \in E2ERuns :
              /\ width = r.width /\ height = r.height /\ settings = r.settings
              /\ frame_count = Len(r.text)
              /\ global_text = r.text
    /\ InitRest
    /\ CacheIdle
    /\ startup = StartupIdle

Finish(status, result) ==
    /\ pc' = "done"
    /\ exit_status' = status
    /\ report' = result
    /\ UNCHANGED <<cache_dir, invocation, startup, sampler>>

\* Reject that raises without writing the report
RejectUnreported(mode, message) == Finish("error", report)

\* Reject that writes the report and returns instead of raising
RejectReturned(mode, message) ==
    Finish("ok", [written |-> TRUE, pass |-> FALSE, mode |-> mode, message |-> message, motion_stats |-> motion'.stats,
                  fill_color |-> Unset])

\* write_report of a result, then RuntimeError
Reject(mode, message) ==
    Finish("error", [written |-> TRUE, pass |-> FALSE, mode |-> mode, message |-> message,
                     motion_stats |-> motion'.stats, fill_color |-> Unset])

\* write_report of a passing result, then return
Accept(mode) ==
    Finish("ok", [written |-> TRUE, pass |-> TRUE, mode |-> mode, message |-> "ok",
                  motion_stats |-> motion'.stats, fill_color |-> sampler.color])

\* an exception before any report is written
Abort == Finish("error", report)

Continue(next) ==
    /\ pc' = next
    /\ UNCHANGED <<report, exit_status, cache_dir, invocation, startup, sampler>>

Setup ==
    /\ pc = "start"
    /\ effective_min_height_px' = Call("effective_min_height", <<height, settings.crop>>)
    /\ IF effective_min_height_px' <= 0 THEN Abort ELSE Continue("detect")
    /\ UNCHANGED <<width, height, settings, frame_count, global_text, transforms,
                   motion, crop_rect, crop_check, fill_crop_rect, fill_stats,
                   fill_band_px>>

\* count_frames_in_trf and the test that follows it
CountFrames ==
    /\ pc = "detect"
    /\ IF frame_count <= 1 THEN Abort ELSE Continue("motions")
    /\ UNCHANGED <<width, height, settings, frame_count, global_text,
                   effective_min_height_px, transforms, motion, crop_rect,
                   crop_check, fill_crop_rect, fill_stats, fill_band_px>>

\* run_global_motions_from_trf emits the record of one more frame
EmitFrame ==
    /\ pc = "motions"
    /\ Len(global_text) < frame_count
    /\ \E line \in FrameLines : global_text' = Append(global_text, line)
    /\ UNCHANGED <<width, height, settings, frame_count, pc,
                   effective_min_height_px, transforms, motion, crop_rect,
                   crop_check, fill_crop_rect, fill_stats, fill_band_px, report,
                   exit_status, cache_dir, invocation, startup, sampler>>

ParseMotions ==
    /\ pc = "motions"
    /\ Len(global_text) = frame_count
    /\ transforms' = parse_global_motions_text(global_text)
    /\ Continue("classify")
    /\ UNCHANGED <<width, height, settings, frame_count, global_text,
                   effective_min_height_px, motion, crop_rect, crop_check,
                   fill_crop_rect, fill_stats, fill_band_px>>

Classify ==
    /\ pc = "classify"
    /\ motion' = Call("motion_reliability_ok",
                      <<width, height, transforms, settings.rejection>>)
    /\ LET failure_code == IF Len(motion'.reasons) = 1 THEN motion'.reasons[1]
                           ELSE "unreliable_motion_multiple"
       IN  IF motion'.ok THEN Continue("crop")
           ELSE Reject("motion_rejection", failure_code)
    /\ UNCHANGED <<width, height, settings, frame_count, global_text,
                   effective_min_height_px, transforms, crop_rect, crop_check,
                   fill_crop_rect, fill_stats, fill_band_px>>

\* SolveCrop that takes the fill fallback whatever border.mode says
SolveCropAlwaysFallback ==
    /\ pc = "crop"
    /\ UNCHANGED <<width, height, settings, frame_count, global_text,
                   effective_min_height_px, transforms, motion, fill_crop_rect,
                   fill_stats, fill_band_px>>
    /\ crop_rect' = Call("compute_static_crop", <<width, height, transforms>>)
    /\ crop_check' = Call("crop_constraints_ok",
                          <<width, height, crop_rect', settings.crop.min_area_ratio,
                            effective_min_height_px,
                            settings.crop.center_safe_margin>>)
    /\ IF crop_check'.ok THEN Continue("render_crop") ELSE Continue("fill_crop")

SolveCrop ==
    /\ pc = "crop"
    /\ UNCHANGED <<width, height, settings, frame_count, global_text,
                   effective_min_height_px, transforms, motion, fill_crop_rect,
                   fill_stats, fill_band_px>>
    /\ crop_rect' = Call("compute_static_crop", <<width, height, transforms>>)
    /\ crop_check' = Call("crop_constraints_ok",
                          <<width, height, crop_rect', settings.crop.min_area_ratio,
                            effective_min_height_px,
                            settings.crop.center_safe_margin>>)
    /\ IF crop_check'.ok THEN Continue("render_crop")
       ELSE IF settings.border.mode # "crop_prefer_fill_fallback"
            THEN Reject("crop_only", "crop infeasible")
       ELSE Continue("fill_crop")

\* the choice of the relaxed crop rectangle
SelectFillCrop ==
    /\ pc = "fill_crop"
    /\ UNCHANGED <<width, height, settings, frame_count, global_text,
                   effective_min_height_px, transforms, motion, crop_rect,
                   crop_check, fill_stats, fill_band_px>>
    /\ LET selected == Call("select_fill_crop",
                            <<width, height, crop_rect,
                              settings.crop.min_area_ratio,
                              effective_min_height_px>>)
       IN  /\ fill_crop_rect' = selected.rect
           /\ IF selected.ok THEN Continue("fill_budget")
              ELSE Reject("fill_fallback", "fill crop infeasible")

\* PlanFill that goes on to the colour sampler whatever the budget says
PlanFillThenSample ==
    /\ pc = "fill_budget"
    /\ UNCHANGED <<width, height, settings, frame_count, global_text,
                   effective_min_height_px, transforms, motion, crop_rect,
                   crop_check, fill_crop_rect>>
    /\ LET fill == settings.border.fill
       IN  fill_stats' = Call("compute_fill_budget",
                              <<transforms, width, height, fill_crop_rect,
                                fill.max_area_ratio, fill.max_frames_ratio,
                                fill.max_consecutive_frames>>)
    /\ fill_band_px' = Call("FillBandPx", <<width, fill_crop_rect, fill_stats'>>)
    /\ Continue("sample_color")

PlanFill ==
    /\ pc = "fill_budget"
    /\ UNCHANGED <<width, height, settings, frame_count, global_text,
                   effective_min_height_px, transforms, motion, crop_rect,
                   crop_check, fill_crop_rect>>
    /\ LET fill == settings.border.fill
       IN  fill_stats' = Call("compute_fill_budget",
                              <<transforms, width, height, fill_crop_rect,
                                fill.max_area_ratio, fill.max_frames_ratio,
                                fill.max_consecutive_frames>>)
    /\ fill_band_px' = Call("FillBandPx", <<width, fill_crop_rect, fill_stats'>>)
    /\ IF fill_stats'.pass THEN Continue("sample_color")
       ELSE Reject("fill_fallback", "fill budget exceeded")

\* compute_center_patch_median_color returns the colour of the pixels it
\* sampled, or raises when an ffmpeg call fails
SampleColor ==
    /\ pc = "sample_color"
    /\ UNCHANGED <<width, height, settings, frame_count, global_text,
                   effective_min_height_px, transforms, motion, crop_rect,
                   crop_check, fill_crop_rect, fill_stats, fill_band_px,
                   cache_dir, invocation, startup>>
    /\ \/ \E samples \in PipelineSamples :
              /\ sampler' = [pc |-> "done", count |-> Len(samples), samples |-> samples,
                             color |-> compute_center_patch_median_color(samples)]
              /\ pc' = "render_fill"
              /\ UNCHANGED <<report, exit_status>>
       \/ /\ sampler' = [sampler EXCEPT !.pc = "failed"]
          /\ pc' = "done"
          /\ exit_status' = "error"
          /\ UNCHANGED report

\* the external calls either succeed or raise
RenderFill ==
    /\ pc = "render_fill"
    /\ UNCHANGED <<width, height, settings, frame_count, global_text,
                   effective_min_height_px, transforms, motion, crop_rect,
                   crop_check, fill_crop_rect, fill_stats, fill_band_px>>
    /\ \E ok \in BOOLEAN : IF ok THEN Accept("fill_fallback") ELSE Abort

\* RenderCrop that answers a failed render by solving the crop again
RenderCropRetried ==
    /\ pc = "render_crop"
    /\ UNCHANGED <<width, height, settings, frame_count, global_text,
                   effective_min_height_px, transforms, motion, crop_rect,
                   crop_check, fill_crop_rect, fill_stats, fill_band_px>>
    /\ \E ok \in BOOLEAN : IF ok THEN Accept("crop_only") ELSE Continue("crop")

RenderCrop ==
    /\ pc = "render_crop"
    /\ UNCHANGED <<width, height, settings, frame_count, global_text,
                   effective_min_height_px, transforms, motion, crop_rect,
                   crop_check, fill_crop_rect, fill_stats, fill_band_px>>
    /\ \E ok \in BOOLEAN : IF ok THEN Accept("crop_only") ELSE Abort

Next ==
    \/ Setup \/ CountFrames \/ EmitFrame \/ ParseMotions \/ Classify
    \/ SolveCrop \/ SelectFillCrop \/ PlanFill \/ SampleColor
    \/ RenderFill \/ RenderCrop

Spec == Init /\ [][Next]_vars

\* the steps main() computes itself
Computing == Setup \/ Classify \/ SolveCrop \/ SelectFillCrop \/ PlanFill

\* the steps that wait for an external call or parse its output
Waiting == CountFrames \/ EmitFrame \/ ParseMotions \/ SampleColor \/ RenderFill \/ RenderCrop

\* the positions of main() at which a Computing step can be taken
ComputingStages == {"start", "classify", "crop", "fill_crop", "fill_budget"}

\* main() is one sequential thread whose every step returns or raises: a run
\* that can take a step takes one.  The second conjunct is weak fairness of
\* Computing with its enabling condition, pc \in ComputingStages, written out.
FairSpec ==
    /\ Spec
    /\ WF_vars(Waiting)
    /\ ([]<>(pc \notin ComputingStages) \/ []<><<Computing>>_vars)

(***************************************************************************)
(* The analysis step of main(), one action per file-system or process      *)
(* step, for invocations that run in any order and at any pace.  The       *)
(* decision pipeline above is not part of these runs: its variables rest.  *)
(***************************************************************************)
PipelineRests ==
    UNCHANGED <<width, height, settings, frame_count, global_text, pc,
                effective_min_height_px, transforms, motion, crop_rect,
                crop_check, fill_crop_rect, fill_stats, fill_band_px, report,
                exit_status, startup, sampler>>

isfile(path) == cache_dir.names[path] # 0
KeyOf(p) == analysis_key(invocation[p].config)
\* invocation p moves to step next with the fields of change replaced
Goes(p, next, change) ==
    invocation' =
        [invocation EXCEPT ![p] =
            [f \in DOMAIN @ |-> IF f = "pc" THEN next
                                ELSE IF f \in DOMAIN change THEN change[f]
                                ELSE @[f]]]
Nothing == [x \in {} |-> x]
\* the elapsed wall time of the global-motions pass, in clock ticks
ElapsedChoices == {1, 2}

\* main() up to the report dictionary: the keys of this invocation's settings
CacheStart(p) ==
    /\ invocation[p].pc = "idle"
    /\ \E c \in Configs :
           Goes(p, "check",
                [config |-> c,
                 started_after |-> {q \in Invocations : invocation[q].pc = "done"}])
    /\ UNCHANGED cache_dir
    /\ PipelineRests

\* if not os.path.isfile(trf_path)
CacheCheck(p) ==
    /\ invocation[p].pc = "check"
    /\ IF isfile(trf_path(KeyOf(p)))
       THEN Goes(p, "count", [cache_hit |-> TRUE])
       ELSE Goes(p, "check_temp", Nothing)
    /\ UNCHANGED cache_dir
    /\ PipelineRests

\* if os.path.isfile(temp_trf)
TempCheck(p) ==
    /\ invocation[p].pc = "check_temp"
    /\ IF isfile(temp_trf(KeyOf(p)))
       THEN Goes(p, "remove_temp", Nothing)
       ELSE Goes(p, "detect", Nothing)
    /\ UNCHANGED cache_dir
    /\ PipelineRests

\* os.remove(temp_trf): FileNotFoundError when the file is gone meanwhile
TempRemove(p) ==
    /\ invocation[p].pc = "remove_temp"
    /\ IF isfile(temp_trf(KeyOf(p)))
       THEN /\ cache_dir' = [cache_dir EXCEPT !.names[temp_trf(KeyOf(p))] = 0]
            /\ Goes(p, "detect", Nothing)
       ELSE /\ UNCHANGED cache_dir
            /\ Goes(p, "failed", Nothing)
    /\ PipelineRests

\* some other invocation's ffmpeg has file f open for writing
WrittenByOther(p, f) ==
    \E q \in Invocations \ {p} :
        invocation[q].pc = "detecting" /\ invocation[q].handle = f

\* run_vidstabdetect: ffmpeg opens the result file for writing, which creates
\* it or truncates the file of that name; two writers on one file garble it.
\* ffmpeg may also exit before it opens the file: with a non-zero status,
\* which run_process raises, or with status zero
DetectOpen(p) ==
    /\ invocation[p].pc = "detect"
    /\ \/ LET path == temp_trf(KeyOf(p))
              f == IF isfile(path) THEN cache_dir.names[path] ELSE p
              content == IF isfile(path) /\ WrittenByOther(p, f)
                         THEN [state |-> "garbled", by |-> p]
                         ELSE [state |-> "partial", by |-> p]
          IN  /\ cache_dir' = [cache_dir EXCEPT !.names[path] = f, !.data[f] = content]
              /\ Goes(p, "detecting", [handle |-> f, detect_ran |-> TRUE])
       \/ /\ UNCHANGED cache_dir
          /\ Goes(p, "failed", [detect_ran |-> TRUE, detect_status |-> "failed"])
       \/ /\ UNCHANGED cache_dir
          /\ Goes(p, "detect_check", [detect_ran |-> TRUE, detect_status |-> "ok"])
    /\ PipelineRests

\* DetectClose that goes on to the test of the file whatever ffmpeg's status
DetectCloseStatusIgnored(p) ==
    /\ invocation[p].pc = "detecting"
    /\ \/ /\ LET f == invocation[p].handle
                 content == IF cache_dir.data[f] = [state |-> "partial", by |-> p]
                            THEN [state |-> "complete", by |-> p]
                            ELSE [state |-> "garbled", by |-> p]
             IN  cache_dir' = [cache_dir EXCEPT !.data[f] = content]
          /\ Goes(p, "detect_check", [handle |-> 0, detect_status |-> "ok"])
       \/ /\ UNCHANGED cache_dir
          /\ Goes(p, "detect_check", [handle |-> 0, detect_status |-> "failed"])
    /\ PipelineRests

\* ffmpeg has written the last frame and exits with status zero, or it
\* exits with a non-zero status and leaves the file as far as it got
DetectClose(p) ==
    /\ invocation[p].pc = "detecting"
    /\ \/ /\ LET f == invocation[p].handle
                 content == IF cache_dir.data[f] = [state |-> "partial", by |-> p]
                            THEN [state |-> "complete", by |-> p]
                            ELSE [state |-> "garbled", by |-> p]
             IN  cache_dir' = [cache_dir EXCEPT !.data[f] = content]
          /\ Goes(p, "detect_check", [handle |-> 0, detect_status |-> "ok"])
       \/ /\ UNCHANGED cache_dir
          /\ Goes(p, "failed", [handle |-> 0, detect_status |-> "failed"])
    /\ PipelineRests

\* the test that ends run_vidstabdetect
DetectCheck(p) ==
    /\ invocation[p].pc = "detect_check"
    /\ IF isfile(temp_trf(KeyOf(p)))
       THEN Goes(p, "replace", Nothing)
       ELSE Goes(p, "failed", Nothing)
    /\ UNCHANGED cache_dir
    /\ PipelineRests

\* os.replace(temp_trf, trf_path): FileNotFoundError without the source
CacheReplace(p) ==
    /\ invocation[p].pc = "replace"
    /\ LET temp == temp_trf(KeyOf(p))
       IN  IF isfile(temp)
           THEN /\ cache_dir' =
                       [cache_dir EXCEPT !.names[trf_path(KeyOf(p))] = cache_dir.names[temp],
                                         !.names[temp] = 0]
                /\ Goes(p, "count", Nothing)
           ELSE /\ UNCHANGED cache_dir
                /\ Goes(p, "failed", Nothing)
    /\ PipelineRests

\* count_frames_in_trf(trf_path) reads what the cached file holds just now
CacheCount(p) ==
    /\ invocation[p].pc = "count"
    /\ Goes(p, "motions",
            [frames_read |-> cache_dir.data[cache_dir.names[trf_path(KeyOf(p))]].state])
    /\ UNCHANGED cache_dir
    /\ PipelineRests

\* the rest of the run: the global motions pass, timed by the wall clock,
\* and the report built from the settings, the keys and the motion path
CacheReport(p) ==
    /\ invocation[p].pc = "motions"
    /\ \E elapsed \in ElapsedChoices :
           Goes(p, "done",
                [report |-> [settings |-> invocation[p].config,
                             analysis_key |-> KeyOf(p),
                             run_key |-> run_key(invocation[p].config),
                             frames |-> invocation[p].frames_read,
                             generated_in_seconds |-> elapsed]])
    /\ UNCHANGED cache_dir
    /\ PipelineRests

CacheInit ==
    /\ width = 0 /\ height = 0 /\ settings = Unset
    /\ frame_count = 0 /\ global_text = <<>>
    /\ InitRest
    /\ CacheIdle
    /\ startup = StartupIdle

CacheNext ==
    \E p \in Invocations :
        \/ CacheStart(p) \/ CacheCheck(p) \/ TempCheck(p) \/ TempRemove(p)
        \/ DetectOpen(p) \/ DetectClose(p) \/ DetectCheck(p)
        \/ CacheReplace(p) \/ CacheCount(p) \/ CacheReport(p)

SpecCache == CacheInit /\ [][CacheNext]_vars

(***************************************************************************)
(* main() from the command line to build_settings.  The run that passes    *)
(* build_settings hands its settings to the decision pipeline, which       *)
(* rests here, as does the analysis cache.                                 *)
(***************************************************************************)
EngineRests ==
    UNCHANGED <<width, height, frame_count, global_text, pc,
                effective_min_height_px, transforms, motion, crop_rect,
                crop_check, fill_crop_rect, fill_stats, fill_band_px, report,
                exit_status, cache_dir, invocation, sampler>>

StartupFails(message) ==
    startup' = [startup EXCEPT !.pc = "failed", !.error = message,
                               !.exit_status = "error"]
exists(path) == startup.files[path] # Absent

\* the options that exclude one another
CheckArgs ==
    /\ startup.pc = "args"
    /\ LET args == startup.args
       IN  IF args.config_file # NoPath /\ args.use_default_config
           THEN StartupFails("use -c/--config or --use-default-config, not both")
           ELSE IF args.config_file # NoPath /\ args.write_default_config
           THEN StartupFails("use -c/--config or --write-default-config, not both")
           ELSE IF args.use_default_config /\ args.write_default_config
           THEN StartupFails("use --use-default-config or --write-default-config, not both")
           ELSE IF args.write_default_config
           THEN startup' = [startup EXCEPT !.pc = "write_default"]
           ELSE startup' = [startup EXCEPT !.pc = "output"]
    /\ UNCHANGED settings
    /\ EngineRests

\* --write-default-config: write the per-input file unless it exists, return
WriteDefaultConfig ==
    /\ startup.pc = "write_default"
    /\ IF exists(DefaultConfigPath)
       THEN StartupFails("default config already exists")
       ELSE startup' = [startup EXCEPT !.pc = "returned", !.exit_status = "ok",
                                       !.files[DefaultConfigPath] = DefaultMapping,
                                       !.written = @ \cup {DefaultConfigPath}]
    /\ UNCHANGED settings
    /\ EngineRests

CheckOutput ==
    /\ startup.pc = "output"
    /\ IF ~startup.args.output_given
       THEN StartupFails("missing required -o/--output")
       ELSE startup' = [startup EXCEPT !.pc = "load"]
    /\ UNCHANGED settings
    /\ EngineRests

\* LoadConfig that leaves the per-input file behind when no option names one
LoadConfigSavesDefaults ==
    /\ startup.pc = "load"
    /\ LET args == startup.args
       IN  IF args.use_default_config
           THEN IF ~exists(DefaultConfigPath)
                THEN StartupFails("default config not found")
                ELSE startup' = [startup EXCEPT !.pc = "build",
                                                !.config = startup.files[DefaultConfigPath],
                                                !.config_path_file = DefaultConfigPath,
                                                !.config_source = "default_config"]
           ELSE IF args.config_file # NoPath
           THEN IF exists(args.config_file)
                THEN startup' = [startup EXCEPT !.pc = "build",
                                                !.config = startup.files[args.config_file],
                                                !.config_path_file = args.config_file,
                                                !.config_source = "explicit_config"]
                ELSE startup' = [startup EXCEPT !.pc = "build",
                                                !.files[args.config_file] = DefaultMapping,
                                                !.written = @ \cup {args.config_file},
                                                !.config = DefaultMapping,
                                                !.config_path_file = args.config_file,
                                                !.config_source = "explicit_config_written"]
           ELSE startup' = [startup EXCEPT !.pc = "build",
                                           !.files[DefaultConfigPath] = DefaultMapping,
                                           !.written = @ \cup {DefaultConfigPath},
                                           !.config = DefaultMapping,
                                           !.config_source = "code_defaults"]
    /\ UNCHANGED settings
    /\ EngineRests

\* the configuration comes from the code, the per-input file or the -c file,
\* which is written with the defaults first when it does not exist
LoadConfig ==
    /\ startup.pc = "load"
    /\ LET args == startup.args
       IN  IF args.use_default_config
           THEN IF ~exists(DefaultConfigPath)
                THEN StartupFails("default config not found")
                ELSE startup' = [startup EXCEPT !.pc = "build",
                                                !.config = startup.files[DefaultConfigPath],
                                                !.config_path_file = DefaultConfigPath,
                                                !.config_source = "default_config"]
           ELSE IF args.config_file # NoPath
           THEN IF exists(args.config_file)
                THEN startup' = [startup EXCEPT !.pc = "build",
                                                !.config = startup.files[args.config_file],
                                                !.config_path_file = args.config_file,
                                                !.config_source = "explicit_config"]
                ELSE startup' = [startup EXCEPT !.pc = "build",
                                                !.files[args.config_file] = DefaultMapping,
                                                !.written = @ \cup {args.config_file},
                                                !.config = DefaultMapping,
                                                !.config_path_file = args.config_file,
                                                !.config_source = "explicit_config_written"]
           ELSE startup' = [startup EXCEPT !.pc = "build",
                                           !.config = DefaultMapping,
                                           !.config_source = "code_defaults"]
    /\ UNCHANGED settings
    /\ EngineRests

\* settings = build_settings(config, ...), which raises on an invalid setting
BuildSettings ==
    /\ startup.pc = "build"
    /\ LET built == build_settings(startup.config)
       IN  IF built.error # ""
           THEN StartupFails(built.error) /\ UNCHANGED settings
           ELSE /\ startup' = [startup EXCEPT !.pc = "engine"]
                /\ settings' = built.settings
    /\ EngineRests

StartupInit ==
    /\ \E args \in CommandLines, files \in StartingFiles :
           startup = StartupOf(args, files)
    /\ width = 0 /\ height = 0 /\ settings = Unset
    /\ frame_count = 0 /\ global_text = <<>>
    /\ InitRest
    /\ CacheIdle

StartupNext ==
    CheckArgs \/ WriteDefaultConfig \/ CheckOutput \/ LoadConfig \/ BuildSettings

SpecStartup == StartupInit /\ [][StartupNext]_vars

(***************************************************************************)
(* compute_center_patch_median_color, one step per sampled frame.          *)
(***************************************************************************)
SamplerRests ==
    UNCHANGED <<width, height, settings, frame_count, global_text, pc,
                effective_min_height_px, transforms, motion, crop_rect,
                crop_check, fill_crop_rect, fill_stats, fill_band_px, report,
                exit_status, cache_dir, invocation, startup>>

\* one pass of the loop: ffmpeg returns the pixel of the next frame, or fails
SampleFrame ==
    /\ sampler.pc = "sampling"
    /\ Len(sampler.samples) < sampler.count
    /\ \/ \E pixel \in Pixels :
              sampler' = [sampler EXCEPT !.samples = Append(@, pixel)]
       \/ sampler' = [sampler EXCEPT !.pc = "failed"]
    /\ SamplerRests

\* after the loop: the colour of the channel medians
FillColor ==
    /\ sampler.pc = "sampling"
    /\ Len(sampler.samples) = sampler.count
    /\ sampler' = [sampler EXCEPT !.pc = "done",
                                  !.color = compute_center_patch_median_color(sampler.samples)]
    /\ SamplerRests

SamplerInit ==
    /\ \E count \in SampleCounts :
           sampler = [pc |-> "sampling", count |-> count, samples |-> <<>>, color |-> Unset]
    /\ width = 0 /\ height = 0 /\ settings = Unset
    /\ frame_count = 0 /\ global_text = <<>>
    /\ pc = "start"
    /\ effective_min_height_px = 0
    /\ transforms = <<>>
    /\ motion = Unset
    /\ crop_rect = Unset
    /\ crop_check = Unset
    /\ fill_crop_rect = Unset
    /\ fill_stats = Unset
    /\ fill_band_px = 0
    /\ report = NoReport
    /\ exit_status = "running"
    /\ CacheIdle
    /\ startup = StartupIdle

SamplerNext == SampleFrame \/ FillColor

SpecSampler == SamplerInit /\ [][SamplerNext]_vars

(***************************************************************************)
(* Properties of the runs.                                                 *)
(***************************************************************************)
Frames == 1..Len(transforms)
HasCrop == crop_rect # Unset
HasFillCrop == fill_crop_rect # Unset
HasFillStats == fill_stats # Unset
HasMotion == motion # Unset
NonEmpty(r) == r.w > 0 /\ r.h > 0

\* rectangle r lies inside the valid box of the frame translated by (dx, dy)
InsideValidBox(r, dx, dy) ==
    /\ Max(0, 0 - dx) <= r.x * PX
    /\ (r.x + r.w) * PX <= Min(width * PX, width * PX - dx)
    /\ Max(0, 0 - dy) <= r.y * PX
    /\ (r.y + r.h) * PX <= Min(height * PX, height * PX - dy)

\* C1: a non-empty static crop lies inside the valid box of every frame
\* that is not missing.
C1_FullCoverage ==
    (HasCrop /\ NonEmpty(crop_rect)) =>
        \A i \in Frames :
            ~transforms[i].missing =>
                InsideValidBox(crop_rect, transforms[i].dx, transforms[i].dy)

\* a non-empty static crop of a path with a frame shifted by a fraction of
\* a pixel
C1_Witness ==
    /\ HasCrop /\ NonEmpty(crop_rect)
    /\ \E i \in Frames : /\ ~transforms[i].missing
                         /\ transforms[i].dx % PX # 0
                         /\ transforms[i].dy % PX # 0

RectInFrame(r) ==
    \/ r.w = 0 /\ r.h = 0
    \/ /\ 0 <= r.x /\ 0 <= r.y
       /\ r.x + r.w <= width /\ r.y + r.h <= height
       /\ r.w > 0 /\ r.h > 0

\* C2: the static crop and the relaxed crop of the fill fallback (the static
\* crop again, or the minimum centered crop) are empty or inside the frame.
C2_RectInvariant ==
    /\ HasCrop => RectInFrame(crop_rect)
    /\ HasFillCrop => RectInFrame(fill_crop_rect)

\* the fill fallback took the minimum centered crop after an empty static crop
C2_Witness ==
    /\ HasCrop /\ ~NonEmpty(crop_rect)
    /\ HasFillCrop /\ NonEmpty(fill_crop_rect)

C4_ZeroMotionFullFrame ==
    (HasCrop /\ \A i \in Frames : transforms[i].dx = 0 /\ transforms[i].dy = 0) =>
        crop_rect = [x |-> 0, y |-> 0, w |-> width, h |-> height]

\* every frame has the same whole-pixel dx, not 0 and below the width, and dy = 0
ConstantDx ==
    /\ Len(transforms) > 0
    /\ transforms[1].dx % PX = 0
    /\ transforms[1].dx # 0
    /\ Abs(transforms[1].dx) < width * PX
    /\ \A i \in Frames : transforms[i].dx = transforms[1].dx /\ transforms[i].dy = 0
ConstantDxAmount == transforms[1].dx \div PX

\* C5 as stated: the crop is width - |D| wide; D > 0 leaves the right edge
\* at width, D < 0 leaves the left edge at 0.
C5_ConstantShiftAsStated ==
    (HasCrop /\ ConstantDx) =>
        IF ConstantDxAmount > 0
        THEN /\ crop_rect.w = width - ConstantDxAmount
             /\ crop_rect.x + crop_rect.w = width
        ELSE /\ crop_rect.w = width + ConstantDxAmount
             /\ crop_rect.x = 0

\* C5, amended: a non-empty crop is width - |D| wide; D > 0 leaves the left
\* edge at 0 and moves the right edge to width - D, D < 0 moves the left
\* edge to |D| and leaves the right edge at width.
C5_ConstantShift ==
    (HasCrop /\ ConstantDx /\ NonEmpty(crop_rect)) =>
        IF ConstantDxAmount > 0
        THEN /\ crop_rect.w = width - ConstantDxAmount
             /\ crop_rect.x = 0
        ELSE /\ crop_rect.w = width + ConstantDxAmount
             /\ crop_rect.x = 0 - ConstantDxAmount
             /\ crop_rect.x + crop_rect.w = width

\* a non-empty static crop of a path shifted right by the same whole pixels
C5_Witness ==
    HasCrop /\ ConstantDx /\ ConstantDxAmount > 0 /\ NonEmpty(crop_rect)

\* the input of the end-to-end scenarios: 1920x1080, 100 frames, dy = angle
\* = zoom = 0, dx within [-5, +5] pixels and reaching both ends, except
\* that frame 50 has dx = 500 pixels when jolt
ScenarioInput(jolt) ==
    /\ width = 1920 /\ height = 1080
    /\ Len(global_text) = 100
    /\ \A i \in 1..100 :
           /\ global_text[i].dy = 0
           /\ global_text[i].angle = 0
           /\ global_text[i].zoom_percent = 0
           /\ IF jolt /\ i = 51 THEN global_text[i].dx = 500 * PX
              ELSE Abs(global_text[i].dx) <= 5 * PX
    /\ \E i \in 1..100 : global_text[i].dx = 5 * PX
    /\ \E i \in 1..100 : global_text[i].dx = 0 - 5 * PX

FillPath == pc \in {"fill_crop", "fill_budget", "sample_color", "render_fill"}

\* C6: E2E A under the default configuration is decided crop-only with a
\* crop 1910 wide: the fill fallback is never entered, and a report that is
\* written (the render call may fail before it) passes with mode crop_only.
C6_ScenarioCropOK ==
    (ScenarioInput(FALSE) /\ settings = default_config) =>
        /\ ~FillPath
        /\ report.written => report.pass /\ report.mode = "crop_only"
        /\ HasCrop => crop_rect.w = 1910

\* the run of E2E A has ended with its report
C6_Witness ==
    /\ ScenarioInput(FALSE) /\ settings = default_config
    /\ pc = "done" /\ report.written /\ report.pass /\ report.mode = "crop_only"
    /\ crop_rect.w = 1910

AngleOver(i) ==
    Abs(transforms[i].angle) * settings.rejection.max_abs_angle_rad[2]
        > settings.rejection.max_abs_angle_rad[1] * ANGLE_DEN
AngleOutliers == {i \in Frames : AngleOver(i)}
NonReferenceFrames == {i \in Frames : ~transforms[i].is_reference}
MissingFrames == {i \in Frames : transforms[i].missing}
\* no translation and no zoom anywhere, missing frames within their budget
OtherMetricsQuiet ==
    /\ \A i \in Frames : /\ transforms[i].dx = 0 /\ transforms[i].dy = 0
                         /\ transforms[i].zoom_percent = 0
    /\ Cardinality(MissingFrames) * settings.rejection.max_missing_fraction[2]
           <= settings.rejection.max_missing_fraction[1]
                  * Cardinality(NonReferenceFrames)
\* 1 / n <= outlier_max_frames_ratio
OneInWithinRatio(n) ==
    n * settings.rejection.outlier_max_frames_ratio[1]
        >= settings.rejection.outlier_max_frames_ratio[2]

\* C9: budgeted mode, exactly one of the N frames of the path over the
\* angle threshold and no other metric violated (N counts the frames after
\* the reference, missing ones included): the classification passes when
\* 1/N is within outlier_max_frames_ratio and runs of one are allowed, and
\* fails when outlier_max_frames_ratio = 0.
C9_OneOutlierWithinBudget ==
    (/\ HasMotion /\ settings.rejection.mode = "budgeted"
     /\ Cardinality(AngleOutliers) = 1
     /\ OtherMetricsQuiet) =>
        /\ (/\ OneInWithinRatio(Cardinality(NonReferenceFrames))
            /\ settings.rejection.outlier_max_consecutive_frames >= 1) => motion.ok
        /\ settings.rejection.outlier_max_frames_ratio[1] = 0 => ~motion.ok

CropInsideEveryFrame ==
    \A i \in Frames : InsideValidBox(fill_crop_rect, transforms[i].dx, transforms[i].dy)

\* C10: a fill crop inside the valid box of every frame of the path has
\* frames_ratio = 0 and passes, whatever the budgets.
C10_ZeroGapAlwaysPasses ==
    (HasFillStats /\ CropInsideEveryFrame) =>
        fill_stats.frames_ratio = FZero /\ fill_stats.pass

CropRejected == crop_check # Unset /\ ~crop_check.ok

\* C11: the fill fallback (relaxed crop, fill budget, color sampling, fill
\* render) is entered only after the crop check failed under border.mode =
\* crop_prefer_fill_fallback; a crop check that fails under border.mode =
\* crop_only ends the run at once with the report pass false, mode crop_only,
\* message "crop infeasible", and nothing of the fill fallback evaluated.
C11_FallbackOnlyWhenPermitted ==
    /\ (FillPath \/ HasFillCrop \/ HasFillStats) =>
           CropRejected /\ settings.border.mode = "crop_prefer_fill_fallback"
    /\ (CropRejected /\ settings.border.mode = "crop_only") =>
           /\ pc = "done"
           /\ report.written /\ ~report.pass
           /\ report.mode = "crop_only" /\ report.message = "crop infeasible"
           /\ ~HasFillCrop /\ ~HasFillStats

\* a run ended by a failed crop check under border.mode = crop_only
C11_Witness ==
    /\ CropRejected /\ settings.border.mode = "crop_only"
    /\ pc = "done" /\ report.message = "crop infeasible"

ReportModes == {"motion_rejection", "crop_only", "fill_fallback"}
Reported ==
    /\ report.written
    /\ report.mode \in ReportModes
    /\ report.motion_stats = motion.stats
    /\ report.pass <=> exit_status = "ok"
\* the decision was CropOK or FillOK: only the external calls remained
PassingDecision ==
    /\ motion.ok
    /\ \/ crop_check # Unset /\ crop_check.ok
       \/ HasFillStats /\ fill_stats.pass

ExpectedFailure ==
    /\ pc = "done" /\ HasMotion
    /\ \/ ~motion.ok
       \/ CropRejected /\ settings.border.mode = "crop_only"
       \/ HasFillCrop /\ ~HasFillStats
       \/ HasFillStats /\ ~fill_stats.pass

\* C13 as stated: UnreliableMotion, CropInfeasible and FillBudgetExceeded are
\* result values, never thrown: a run that ends with one of them does not
\* exit non-zero.
C13_ExpectedOutcomesNeverThrown == ExpectedFailure => exit_status # "error"

\* C13: UnreliableMotion, CropInfeasible and FillBudgetExceeded are written
\* to the report as a failing result and then raised: the run exits non-zero,
\* and the exit is zero exactly for the runs whose report says pass.
C13_ExpectedOutcomesReportedThenRaised ==
    /\ ExpectedFailure =>
           /\ exit_status = "error"
           /\ report.written /\ ~report.pass
           /\ report.message # "" /\ report.message # "ok"
    /\ pc = "done" => (exit_status = "ok" <=> report.written /\ report.pass)

C13_Witness ==
    /\ ExpectedFailure /\ HasFillStats /\ ~fill_stats.pass
    /\ exit_status = "error"
    /\ report.written /\ report.message = "fill budget exceeded"

\* the per-metric outlier budgets of the classifier's statistics
OutlierBudgets ==
    {motion.stats.angle_outliers, motion.stats.zoom_outliers,
     motion.stats.scale_jump_outliers, motion.stats.combined_outliers}

\* C14: missing frames count toward the denominators of the budget ratios:
\* the total_frames under the fill planner's frames_ratio and under each of
\* the classifier's bad_frames_ratio is the number of non-reference frames of
\* the path, missing ones included.
C14_MissingCountInDenominators ==
    /\ (HasFillStats /\ "total_frames" \in DOMAIN fill_stats) =>
           fill_stats.total_frames = Cardinality(NonReferenceFrames)
    /\ (HasMotion /\ "combined_outliers" \in DOMAIN motion.stats) =>
           \A budget \in OutlierBudgets :
               budget.total_frames = Cardinality(NonReferenceFrames)

\* C15: in every parsed motion path, frame 0 is the reference and not
\* missing, no later frame is marked is_reference, and no frame is both
\* is_reference and missing.
C15_FrameZeroIsReference ==
    transforms # <<>> =>
        /\ transforms[1].is_reference /\ ~transforms[1].missing
        /\ \A i \in Frames : i > 1 => ~transforms[i].is_reference
        /\ \A i \in Frames : ~(transforms[i].is_reference /\ transforms[i].missing)

\* the area of the fill crop outside the valid box of frame i, in 1/PX^2 pixel
CropGapArea(i) ==
    LET r == fill_crop_rect
        left == Max(0, 0 - transforms[i].dx)
        right == Min(width * PX, width * PX - transforms[i].dx)
        top == Max(0, 0 - transforms[i].dy)
        bottom == Min(height * PX, height * PX - transforms[i].dy)
        iw == Max(0, Min((r.x + r.w) * PX, right) - Max(r.x * PX, left))
        ih == Max(0, Min((r.y + r.h) * PX, bottom) - Max(r.y * PX, top))
    IN  r.w * PX * r.h * PX - iw * ih
CountedFrames == {i \in Frames : ~transforms[i].missing /\ ~transforms[i].is_reference}
NeedsFill == {i \in CountedFrames : CropGapArea(i) > 0}
\* some n consecutive counted frames, in path order, all need fill
HasFillRun(n) ==
    LET u == UsableIndices(transforms)
    IN  \E s \in 1..(Len(u) - n + 1) :
            \A k \in s..(s + n - 1) : CropGapArea(u[k]) > 0
\* n is the length of the longest run of fill-needing frames
LongestFillRun(n) == HasFillRun(n) /\ ~HasFillRun(n + 1)

\* C16: compute_fill_budget passes iff max_fill_area_ratio <= max_area_ratio
\* and frames_ratio <= max_frames_ratio and the longest run of consecutive
\* fill-needing frames <= max_consecutive_frames, a frame needing fill iff
\* the crop area minus its intersection with the frame's valid box is
\* positive; the reasons list is empty exactly when pass is true.
C16_FillBudgetVerdict ==
    HasFillStats =>
        LET fill == settings.border.fill
        IN  /\ fill_stats.pass <=>
                   /\ ~FGt(fill_stats.max_fill_area_ratio, Dec(fill.max_area_ratio))
                   /\ ~FGt(fill_stats.frames_ratio, Dec(fill.max_frames_ratio))
                   /\ fill_stats.max_consecutive_frames <= fill.max_consecutive_frames
            /\ fill_stats.reasons = <<>> <=> fill_stats.pass
            /\ fill_stats.frames_with_fill = Cardinality(NeedsFill)
            /\ LongestFillRun(fill_stats.max_consecutive_frames)
            /\ fill_stats.total_frames > 0 =>
                   fill_stats.frames_ratio =
                       FDiv(FOfInt(Cardinality(NeedsFill)),
                            FOfInt(fill_stats.total_frames))

C16_Witness ==
    /\ HasFillStats /\ fill_stats.pass
    /\ fill_stats.frames_with_fill > 0
    /\ fill_stats.reasons = <<>>

\* n / d rounded to the nearest integer, halves to the even one
RoundHalfEven(n, d) ==
    LET q == n \div d
        r == n % d
    IN  IF 2 * r > d \/ (2 * r = d /\ q % 2 = 1) THEN q + 1 ELSE q
\* min_height_px, or round(height * min_height_ratio) when min_height_px = 0
EffectiveMinimumHeight ==
    IF settings.crop.min_height_px = 0
    THEN RoundHalfEven(height * settings.crop.min_height_ratio[1],
                       settings.crop.min_height_ratio[2])
    ELSE settings.crop.min_height_px
\* the constraints on the static crop, in exact arithmetic
CropFeasible ==
    LET r == crop_rect
        area == settings.crop.min_area_ratio
        margin == settings.crop.center_safe_margin
    IN  /\ r.w > 0 /\ r.h > 0
        /\ r.x >= 0 /\ r.y >= 0 /\ r.x + r.w <= width /\ r.y + r.h <= height
        /\ r.w * r.h * area[2] >= area[1] * width * height
        /\ r.h >= EffectiveMinimumHeight
        /\ r.x * margin[2] <= width * margin[1]
        /\ r.y * margin[2] <= height * margin[1]
        /\ (r.x + r.w) * margin[2] >= width * (margin[2] - margin[1])
        /\ (r.y + r.h) * margin[2] >= height * (margin[2] - margin[1])
MotionAccepted == HasMotion /\ motion.ok
EndedCropOK ==
    /\ pc = "done" /\ report.written /\ report.pass /\ report.mode = "crop_only"
    /\ HasCrop /\ NonEmpty(crop_rect)

RepeatedRun(p, q) ==
    /\ invocation[p].pc = "done" /\ invocation[q].pc = "done"
    /\ p \in invocation[q].started_after
    /\ invocation[p].config = invocation[q].config

\* C18: the report is stable across repeated runs: a run repeated on the
\* same unchanged input, range, configuration and toolchain writes a report
\* with the same content as the first.
C18_RepeatedRunSameReport ==
    \A p, q \in Invocations :
        RepeatedRun(p, q) => invocation[q].report = invocation[p].report

\* invocation q started after invocation p had ended, on the same input
\* identity, range, detection parameters and toolchain, with other
\* transform/crop/border/rejection settings, and has looked into the cache
RetunedRun(p, q) ==
    /\ p \in invocation[q].started_after
    /\ invocation[q].pc \notin {"idle", "check"}
    /\ invocation[q].config.input = invocation[p].config.input
    /\ invocation[q].config.detect = invocation[p].config.detect
    /\ invocation[q].config.tuning # invocation[p].config.tuning

\* C19: a run that follows a completed run on the same input identity,
\* range, detection parameters and toolchain and changes only the
\* transform/crop/border/rejection settings has the same analysis_key and
\* another run_key, finds the cached transforms, and never executes
\* vidstabdetect.
C19_RetunedRunReusesAnalysis ==
    \A p, q \in Invocations :
        RetunedRun(p, q) =>
            /\ KeyOf(q) = KeyOf(p)
            /\ run_key(invocation[q].config) # run_key(invocation[p].config)
            /\ invocation[q].cache_hit
            /\ ~invocation[q].detect_ran
            /\ invocation[q].pc \in {"count", "motions", "done"}

C19_Witness ==
    \E p, q \in Invocations :
        /\ RetunedRun(p, q)
        /\ invocation[p].detect_ran
        /\ invocation[q].pc = "done" /\ invocation[q].cache_hit
        /\ invocation[q].report.run_key # invocation[p].report.run_key

\* the cached transforms file of key, where there is one
CacheEntry(key) == cache_dir.data[cache_dir.names[trf_path(key)]]
Ended(p) == invocation[p].pc \in {"done", "failed"}

\* C20: two unsynchronized invocations on one analysis cache key are
\* last-writer-wins under every interleaving: neither fails in its analysis
\* step, a cache entry never holds a partial file, and when both have ended
\* the entry holds the complete output of one of the writers.
C20_LastWriterWins ==
    /\ \A p \in Invocations : invocation[p].pc # "failed"
    /\ \A c \in Configs :
           isfile(trf_path(analysis_key(c))) =>
               CacheEntry(analysis_key(c)).state = "complete"
    /\ \A p \in Invocations :
           (\A q \in Invocations : Ended(q)) =>
               /\ isfile(trf_path(KeyOf(p)))
               /\ CacheEntry(KeyOf(p)).state = "complete"
               /\ \E w \in Invocations :
                      /\ invocation[w].detect_ran /\ KeyOf(w) = KeyOf(p)
                      /\ CacheEntry(KeyOf(p)).by = w

\* nothing of the decision engine has run and nothing was written by it
EngineUntouched ==
    /\ pc = "start" /\ transforms = <<>> /\ motion = Unset
    /\ crop_rect = Unset /\ fill_crop_rect = Unset /\ fill_stats = Unset
    /\ report = NoReport
    /\ cache_dir = EmptyCache
    /\ \A p \in Invocations : invocation[p] = IdleInvocation

\* C21: a configuration with a setting outside the range build_settings
\* enforces is fatal before the decision engine runs: the run fails at
\* build_settings with that setting's message, no settings are handed on,
\* and no motion analysis, classification, crop solving, cache write or
\* report write has taken place.
C21_InvalidConfigurationFatal ==
    startup.config \in InvalidMappings =>
        /\ startup.pc \in {"build", "failed"}
        /\ startup.pc = "failed" => startup.exit_status = "error" /\ startup.error # ""
        /\ settings = Unset
        /\ EngineUntouched

C21_Witness ==
    /\ startup.config \in InvalidMappings
    /\ startup.config.core.crop.center_safe_margin = <<5, 10>>
    /\ startup.pc = "failed"
    /\ startup.error = "center_safe_margin must be >= 0 and < 0.5"
    /\ EngineUntouched

\* the place of each step of main() in the one order the flow allows
StageRank ==
    [s \in {"start", "detect", "motions", "classify", "crop", "render_crop",
            "fill_crop", "fill_budget", "sample_color", "render_fill", "done"} |->
        CASE s = "start" -> 0
          [] s = "detect" -> 1
          [] s = "motions" -> 2
          [] s = "classify" -> 3
          [] s = "crop" -> 4
          [] s = "render_crop" -> 5
          [] s = "fill_crop" -> 5
          [] s = "fill_budget" -> 6
          [] s = "sample_color" -> 7
          [] s = "render_fill" -> 8
          [] s = "done" -> 9]
\* a step leaves its stage for a later one; the global-motions call alone
\* stays, while its one ffmpeg process emits the frames of the path
StepsForward ==
    \/ StageRank[pc'] > StageRank[pc]
    \/ /\ pc = "motions" /\ pc' = "motions"
       /\ Len(global_text') = Len(global_text) + 1
       /\ Len(global_text') <= frame_count
\* what a stage or an external call has produced is never produced again
ComputedOnce ==
    /\ transforms # <<>> => transforms' = transforms
    /\ motion # Unset => motion' = motion
    /\ crop_rect # Unset => crop_rect' = crop_rect
    /\ fill_crop_rect # Unset => fill_crop_rect' = fill_crop_rect
    /\ fill_stats # Unset => fill_stats' = fill_stats
    /\ report.written => report' = report
    /\ exit_status # "running" => exit_status' = exit_status

\* C22: the flow has no loop and no retry: every step moves to a later
\* stage, so classification, crop solving, fill-budget planning and each
\* external call run at most once and in the order Init, Classifying,
\* SolvingCrop, SolvingFillBudget; a failed external call ends the run; and
\* every run reaches its terminal state and stays there.
C22_NoLoopNoRetryTerminates ==
    /\ [][StepsForward /\ ComputedOnce]_vars
    /\ <>[](pc = "done" /\ exit_status # "running")

\* a run that went through every stage of the fallback path, once each
C22_Witness ==
    /\ pc = "done" /\ report.written /\ report.pass /\ report.mode = "fill_fallback"
    /\ HasMotion /\ HasCrop /\ HasFillCrop /\ HasFillStats

\* the run was started without -c, --use-default-config, --write-default-config
NoConfigOption ==
    /\ startup.args.config_file = NoPath
    /\ ~startup.args.use_default_config
    /\ ~startup.args.write_default_config

\* the option that allows the run to write the configuration file at path
MayWriteConfig(path) ==
    \/ startup.args.write_default_config /\ path = DefaultConfigPath
    \/ startup.args.config_file # NoPath /\ path = startup.args.config_file

ConfigFilesWrittenByOptionOnly ==
    \A path \in DOMAIN startup.files :
        startup.files'[path] # startup.files[path] =>
            /\ MayWriteConfig(path)
            /\ startup.files[path] = Absent
            /\ startup.files'[path] = DefaultMapping

\* C23: a run given none of -c, --use-default-config, --write-default-config
\* uses the built-in defaults, records config_source code_defaults and no
\* config path, and writes no file; a configuration file changes only by
\* --write-default-config creating the per-input file or by -c creating the
\* file it names, in both cases only when no such file existed.
C23_NoConfigOptionUsesCodeDefaults ==
    /\ [](NoConfigOption =>
            /\ startup.written = {}
            /\ startup.config_path_file = NoPath
            /\ startup.config # Unset =>
                   /\ startup.config = DefaultMapping
                   /\ startup.config_source = "code_defaults"
            /\ startup.pc = "engine" => settings = DefaultMapping.core)
    /\ [](\A path \in startup.written : MayWriteConfig(path))
    /\ [][ConfigFilesWrittenByOptionOnly]_vars

C23_Witness ==
    /\ NoConfigOption
    /\ startup.pc = "engine"
    /\ startup.config_source = "code_defaults"
    /\ startup.files[DefaultConfigPath] = Absent
    /\ startup.written = {}

\* the value of one channel of a #rrggbb colour: c = 1 red, 2 green, 3 blue
ChannelOfColor(color, c) ==
    CHOOSE v \in 0..255 : Hex2(v) = <<color[2 * c], color[2 * c + 1]>>

\* the distance of n / d from the interval lo..hi, times d
DistanceTimes(n, d, lo, hi) ==
    IF n < lo * d THEN lo * d - n ELSE IF n > hi * d THEN n - hi * d ELSE 0

\* sample i of the values is an outlier: it lies outside the range of the
\* other samples, the cluster, whose bounds are lo and hi
MedianBeatsMean(values, i, m) ==
    LET others == {values[k] : k \in (1..Len(values)) \ {i}}
        lo == CHOOSE v \in others : \A o \in others : v <= o
        hi == CHOOSE v \in others : \A o \in others : v >= o
        Sum[k \in 0..Len(values)] == IF k = 0 THEN 0 ELSE Sum[k - 1] + values[k]
    IN  (values[i] < lo \/ values[i] > hi) =>
            /\ lo <= m /\ m <= hi
            /\ DistanceTimes(m * Len(values), Len(values), lo, hi)
                   <= DistanceTimes(Sum[Len(values)], Len(values), lo, hi)

\* C24: with five samples of a channel, four in a cluster and one outside
\* it, the channel of the fill colour lies within the range of the cluster
\* and is at least as close to the cluster as the mean of the five samples.
C24_MedianColorIgnoresOneOutlier ==
    (sampler.pc = "done" /\ sampler.count = 5) =>
        \A c \in 1..3 : \A i \in 1..5 :
            MedianBeatsMean(Channel(sampler.samples, c), i,
                            ChannelOfColor(sampler.color.color, c))

C24_Witness ==
    /\ sampler.pc = "done"
    /\ sampler.samples = <<<<100, 101, 102>>, <<255, 0, 100>>, <<101, 101, 100>>,
                           <<103, 100, 101>>, <<102, 103, 103>>>>
    /\ sampler.color.color = <<"#", "6", "6", "6", "5", "6", "5">>

\* the metrics of the classifier with their rejection reasons
Metrics == {"angle", "zoom", "scale"}
MetricReason(metric) ==
    CASE metric = "angle" -> "unreliable_motion_angle"
      [] metric = "zoom" -> "unreliable_motion_zoom"
      [] metric = "scale" -> "unreliable_motion_scale"

\* the k-th usable frame is bad for the metric: its value strictly exceeds
\* the metric's threshold (the scale jump of a frame is taken against the
\* usable frame before it, whose scale must be positive)
BadUsable(metric, k) ==
    LET u == UsableIndices(transforms)
        z == transforms[u[k]].zoom_percent
        rejection == settings.rejection
    IN  CASE metric = "angle" -> AngleOver(u[k])
          [] metric = "zoom" ->
                Abs(z) * rejection.max_abs_zoom_percent[2] > rejection.max_abs_zoom_percent[1]
          [] metric = "scale" ->
                /\ k > 1
                /\ 100 + transforms[u[k - 1]].zoom_percent > 0
                /\ Abs(z - transforms[u[k - 1]].zoom_percent) * rejection.max_scale_jump[2]
                       > rejection.max_scale_jump[1]
                             * (100 + transforms[u[k - 1]].zoom_percent)

UsableCount == Len(UsableIndices(transforms))
BadCount(metric) == Cardinality({k \in 1..UsableCount : BadUsable(metric, k)})
\* some n consecutive usable frames are all bad for the metric
HasBadRun(metric, n) ==
    \E s \in 1..(UsableCount - n + 1) : \A k \in s..(s + n - 1) : BadUsable(metric, k)

\* the bad-frame fraction of the metric is > outlier_max_frames_ratio, or a
\* run of bad frames is longer than outlier_max_consecutive_frames
MetricOverBudget(metric) ==
    \/ BadCount(metric) * settings.rejection.outlier_max_frames_ratio[2]
           > settings.rejection.outlier_max_frames_ratio[1] * UsableCount
    \/ HasBadRun(metric, settings.rejection.outlier_max_consecutive_frames + 1)

Rejects(reason) == \E k \in 1..Len(motion.reasons) : motion.reasons[k] = reason

\* C25: in budgeted mode the classifier adds the rejection reason of a
\* metric if and only if the metric's fraction of bad frames among the
\* usable frames exceeds outlier_max_frames_ratio or its longest run of
\* consecutive bad usable frames exceeds outlier_max_consecutive_frames.
C25_BudgetedReasonIffOverBudget ==
    (HasMotion /\ settings.rejection.mode = "budgeted") =>
        \A metric \in Metrics : Rejects(MetricReason(metric)) <=> MetricOverBudget(metric)

\* the verdict of the classifier on the path of the run under the run's
\* rejection settings with the mode replaced
VerdictInMode(mode) ==
    motion_reliability_ok(width, height, transforms,
                          [settings.rejection EXCEPT !.mode = mode])

\* C30: budgeted mode is never stricter than max mode: a path that
\* motion_reliability_ok passes with mode = max it also passes with
\* mode = budgeted, the other rejection settings being the same.
C30_BudgetedNeverStricter ==
    HasMotion => (VerdictInMode("max").ok => VerdictInMode("budgeted").ok)

\* the rectangle lies in the frame and meets the area and height
\* constraints, in exact arithmetic
AreaAndHeightMet(r) ==
    /\ r.w > 0 /\ r.h > 0
    /\ r.x >= 0 /\ r.y >= 0 /\ r.x + r.w <= width /\ r.y + r.h <= height
    /\ r.w * r.h * settings.crop.min_area_ratio[2]
           >= settings.crop.min_area_ratio[1] * width * height
    /\ r.h >= effective_min_height_px

\* the least height and width of a rectangle of the frame's aspect whose
\* height is at least the effective minimum and whose area is at least
\* min_area_ratio of the frame, each rounded up to a whole pixel
LeastHeight ==
    CHOOSE h \in 0..(height + 1) :
        LET fits(v) == /\ v >= effective_min_height_px
                       /\ v * v * settings.crop.min_area_ratio[2]
                              >= settings.crop.min_area_ratio[1] * height * height
        IN  (fits(h) \/ h = height + 1) /\ \A v \in 0..(h - 1) : ~fits(v)
LeastWidth ==
    CHOOSE w \in 0..(width + 1) :
        LET fits(v) == /\ v * height >= effective_min_height_px * width
                       /\ v * v * settings.crop.min_area_ratio[2]
                              >= settings.crop.min_area_ratio[1] * width * width
        IN  (fits(w) \/ w = width + 1) /\ \A v \in 0..(w - 1) : ~fits(v)
SmallestCenteredCrop ==
    IF LeastHeight > height \/ LeastWidth > width \/ LeastHeight = 0 \/ LeastWidth = 0
    THEN EmptyRect
    ELSE [x |-> (width - LeastWidth) \div 2, y |-> (height - LeastHeight) \div 2,
          w |-> LeastWidth, h |-> LeastHeight]

FillCropInfeasible ==
    /\ pc = "done" /\ exit_status = "error"
    /\ report.written /\ ~report.pass
    /\ report.mode = "fill_fallback" /\ report.message = "fill crop infeasible"
    /\ fill_stats = Unset

\* C26: on the fallback path the fill crop is the static crop whenever that
\* crop meets the area and height constraints (the center-safe check is not
\* applied); otherwise it is the smallest centered rectangle of the frame's
\* aspect that meets min_area_ratio and the effective minimum height; the run
\* ends with the report "fill crop infeasible" and no fill budget exactly
\* when that rectangle is empty or fails the area and height constraints.
C26_RelaxedCropSelection ==
    HasFillCrop =>
        IF AreaAndHeightMet(crop_rect)
        THEN fill_crop_rect = crop_rect /\ ~FillCropInfeasible
        ELSE /\ fill_crop_rect = SmallestCenteredCrop
             /\ FillCropInfeasible <=> ~AreaAndHeightMet(fill_crop_rect)

C26_Witness ==
    /\ HasFillCrop /\ ~AreaAndHeightMet(crop_rect)
    /\ fill_crop_rect = EmptyRect
    /\ FillCropInfeasible

\* compute_center_patch_median_color has been called
SamplerInvoked == sampler.pc # "idle"
\* the run took the fallback path and its fill budget passed
FillBudgetPassed ==
    /\ MotionAccepted /\ CropRejected /\ HasFillCrop
    /\ HasFillStats /\ fill_stats.pass
ReportHasFillColor == report.written /\ report.fill_color # Unset

EntryPaths == {trf_path(analysis_key(c)) : c \in Configs}
\* every invocation other than p has not started, or had ended with its
\* report before p started
Sequential(p) ==
    \A q \in Invocations \ {p} :
        invocation[q].pc = "idle" \/ q \in invocation[p].started_after

\* what a step of invocation p may do to the cache entries
CacheEntryStep(p) ==
    /\ \A path \in EntryPaths :
           (cache_dir.names[path] = 0 /\ cache_dir.names'[path] # 0) =>
               /\ path = trf_path(KeyOf(p))
               /\ invocation[p].pc = "replace" /\ invocation'[p].pc = "count"
               /\ invocation[p].detect_ran /\ invocation[p].detect_status = "ok"
               /\ isfile(temp_trf(KeyOf(p)))
               /\ cache_dir.names'[path] = cache_dir.names[temp_trf(KeyOf(p))]
               /\ cache_dir.names'[temp_trf(KeyOf(p))] = 0
    /\ invocation'[p].pc = "failed" =>
           \A path \in EntryPaths : cache_dir.names'[path] = cache_dir.names[path]
    /\ (Sequential(p) \/ invocation[p].cache_hit) =>
           \A path \in EntryPaths :
               cache_dir.names[path] # 0 =>
                   /\ cache_dir.names'[path] = cache_dir.names[path]
                   /\ cache_dir.data'[cache_dir.names[path]]
                          = cache_dir.data[cache_dir.names[path]]

\* C28: within one invocation a cache entry comes into existence only by
\* the rename of the temp file, after the motion-analysis call returned
\* successfully and the temp file exists; an invocation whose analysis
\* call fails or produces no file creates no cache entry, so that none
\* exists afterwards when it ran alone; an existing cache entry is never
\* modified by an invocation that runs by itself or that found the entry.
C28_CacheEntryOnlyByRename ==
    /\ [][\A p \in Invocations :
              invocation'[p] # invocation[p] => CacheEntryStep(p)]_vars
    /\ [](\A p \in Invocations :
              (/\ invocation[p].pc = "failed"
               /\ \A q \in Invocations \ {p} : invocation[q].pc = "idle") =>
                  \A path \in EntryPaths : ~isfile(path))
    /\ [](\A p \in Invocations :
              invocation[p].pc = "replace" => invocation[p].detect_status = "ok")

C28_Witness ==
    \E p \in Invocations :
        /\ invocation[p].pc = "failed" /\ invocation[p].detect_status = "failed"
        /\ isfile(temp_trf(KeyOf(p))) /\ ~isfile(trf_path(KeyOf(p)))
        /\ \E q \in Invocations \ {p} :
               /\ invocation[q].pc = "done" /\ invocation[q].detect_ran
               /\ isfile(trf_path(KeyOf(q)))

\* compute_fill_budget of the static crop over the path it was solved for
StaticCropFillBudget ==
    compute_fill_budget(transforms, width, height, crop_rect,
                        settings.border.fill.max_area_ratio,
                        settings.border.fill.max_frames_ratio,
                        settings.border.fill.max_consecutive_frames)

\* C29: whenever compute_static_crop returns a non-empty rectangle,
\* compute_fill_budget of that rectangle over the same motion path reports
\* frames_with_fill = 0, max_fill_area_ratio = 0 and max_gap_px = 0.
C29_StaticCropNeedsNoFill ==
    (HasCrop /\ NonEmpty(crop_rect)) =>
        /\ StaticCropFillBudget.frames_with_fill = 0
        /\ StaticCropFillBudget.max_fill_area_ratio = FZero
        /\ StaticCropFillBudget.max_gap_px = 0
====
